---------------------------- MODULE Spec2Model ----------------------------
(***************************************************************************)
(* A model of svg_llm.py, the Inkscape extension SVGLLMGenerator: the      *)
(* retry loop around the provider call, the per-variation loop of effect,  *)
(* the text clean-up and repair of the provider's answer, and the merge of *)
(* the parsed fragment into the host document.                             *)
(*                                                                         *)
(* Text is a sequence of one-character strings, so that the regular        *)
(* expressions and the str methods of the source act on characters, as in  *)
(* Python.                                                                 *)
(***************************************************************************)
EXTENDS Integers, Sequences, FiniteSets, TLC

(***************************************************************************)
(* Literals of the source, as character sequences.                         *)
(***************************************************************************)
\* The backquote cannot be written inside a TLA+ string: this atom stands for it.
BackQuote == "BACKQUOTE"
LitFence == <<BackQuote, BackQuote, BackQuote>>
LitSvgWord == <<"s", "v", "g">>
LitXmlWord == <<"x", "m", "l">>
LitXmlDecl == <<"<", "?", "x", "m", "l">>
LitDoctype == <<"<", "!", "D", "O", "C", "T", "Y", "P", "E">>
LitEmptyXmlns == <<"x", "m", "l", "n", "s", "=", "\"", "\"">>
LitNbsp == <<"&", "n", "b", "s", "p", ";">>
LitSvgOpen == <<"<", "s", "v", "g">>
LitSvgClose == <<"<", "/", "s", "v", "g", ">">>
LitXmlnsEq == <<"x", "m", "l", "n", "s", "=">>
LitViewBoxEq == <<"v", "i", "e", "w", "B", "o", "x", "=">>
LitNsUrl == <<"h", "t", "t", "p", ":", "/", "/", "w", "w", "w", ".", "w", "3", ".",
              "o", "r", "g", "/", "2", "0", "0", "0", "/", "s", "v", "g">>
\* The attribute xmlns with the SVG namespace as its value, after a space.
LitNsAttr == <<" ">> \o LitXmlnsEq \o <<"\"">> \o LitNsUrl \o <<"\"">>
\* The start of the viewBox attribute, up to the width.
LitViewBoxHead == <<" ">> \o LitViewBoxEq \o <<"\"", "0", " ", "0", " ">>

(***************************************************************************)
(* str and re primitives.                                                  *)
(***************************************************************************)
\* Python's whitespace class (\s, str.strip), on the characters texts here use.
IsSpace(c) == c \in {" ", "\n", "\t", "\r"}

\* lit occurs in s at index i (1-based).
StartsAt(s, i, lit) ==
    /\ i >= 1
    /\ i + Len(lit) - 1 <= Len(s)
    /\ \A k \in 1..Len(lit) : s[i + k - 1] = lit[k]

\* str.startswith
StartsWith(s, lit) == StartsAt(s, 1, lit)

\* lit in s
Contains(s, lit) == \E i \in 1..(Len(s) - Len(lit) + 1) : StartsAt(s, i, lit)

MinOf(S) == CHOOSE x \in S : \A y \in S : x <= y
MaxOf(S) == CHOOSE x \in S : \A y \in S : x >= y

\* The first index >= i at which s holds a character that is no whitespace,
\* Len(s) + 1 when there is none: where a greedy \s* starting at i ends.
SkipSpace(s, i) ==
    LET S == {j \in i..Len(s) : ~IsSpace(s[j])}
    IN  IF S = {} THEN Len(s) + 1 ELSE MinOf(S)

\* The first index >= i at which s holds character c, 0 when there is none.
FindChar(s, c, i) ==
    LET S == {j \in i..Len(s) : s[j] = c}
    IN  IF S = {} THEN 0 ELSE MinOf(S)

\* The first index >= i at which lit occurs in s, 0 when there is none (str.find).
FindLit(s, lit, i) ==
    LET S == {j \in i..Len(s) : StartsAt(s, j, lit)}
    IN  IF S = {} THEN 0 ELSE MinOf(S)

\* The last index at which lit occurs in s, 0 when there is none (str.rfind).
RFindLit(s, lit) ==
    LET S == {j \in 1..Len(s) : StartsAt(s, j, lit)}
    IN  IF S = {} THEN 0 ELSE MaxOf(S)

\* The largest index e in a..(b - 1) with s[e] a newline, 0 when there is none.
LastNewline(s, a, b) ==
    LET S == {e \in a..(b - 1) : s[e] = "\n"}
    IN  IF S = {} THEN 0 ELSE MaxOf(S)

\* str.strip()
Strip(s) ==
    LET S == {j \in 1..Len(s) : ~IsSpace(s[j])}
    IN  IF S = {} THEN <<>> ELSE SubSeq(s, MinOf(S), MaxOf(S))

\* str.replace(old, new, 1): the first occurrence only.
ReplaceFirst(s, old, new) ==
    LET i == FindLit(s, old, 1)
    IN  IF i = 0 THEN s
        ELSE SubSeq(s, 1, i - 1) \o new \o SubSeq(s, i + Len(old), Len(s))

\* The decimal digits of a natural number, as f"{n}" writes them.
Digit(d) == <<"0", "1", "2", "3", "4", "5", "6", "7", "8", "9">>[d + 1]
RECURSIVE ToStr(_)
ToStr(n) == IF n < 10 THEN <<Digit(n)>> ELSE ToStr(n \div 10) \o <<Digit(n % 10)>>

(***************************************************************************)
(* The patterns of clean_svg_response.  Each operator gives, for a match   *)
(* of the pattern that starts at index i of s, the index just after the    *)
(* match, and 0 when the pattern does not match at i.                      *)
(***************************************************************************)
\* r'^(3 backquotes)(?:svg|xml)?\s*\n?' with re.MULTILINE: ^ is the start of the text or
\* the place after a newline; after the greedy \s* nothing is left for \n?.
FenceOpenEnd(s, i) ==
    IF (i = 1 \/ s[i - 1] = "\n") /\ StartsAt(s, i, LitFence)
    THEN LET j == i + 3
             k == IF StartsAt(s, j, LitSvgWord) \/ StartsAt(s, j, LitXmlWord)
                  THEN j + 3 ELSE j
         IN  SkipSpace(s, k)
    ELSE 0

\* r'\n?(3 backquotes)\s*$' with re.MULTILINE: $ is the end of the text or the place
\* before a newline, so the greedy \s* gives back characters until it stands
\* at one of these.
FenceCloseEnd(s, i) ==
    LET t == IF s[i] = "\n" /\ StartsAt(s, i + 1, LitFence) THEN i + 1
             ELSE IF StartsAt(s, i, LitFence) THEN i ELSE 0
        a == t + 3
        b == SkipSpace(s, a)
    IN  IF t = 0 THEN 0
        ELSE IF b = Len(s) + 1 THEN b
        ELSE LastNewline(s, a, b)

\* r'<\?xml[^>]+\?>\s*': [^>]+ cannot cross a '>', so the match ends at the
\* first '>' after '<?xml', which must follow a '?' and at least one character.
XmlDeclEnd(s, i) ==
    IF StartsAt(s, i, LitXmlDecl)
    THEN LET g == FindChar(s, ">", i + 5)
         IN  IF g >= i + 7 /\ s[g - 1] = "?" THEN SkipSpace(s, g + 1) ELSE 0
    ELSE 0

\* r'<!DOCTYPE[^>]+>\s*'
DoctypeEnd(s, i) ==
    IF StartsAt(s, i, LitDoctype)
    THEN LET g == FindChar(s, ">", i + 9)
         IN  IF g >= i + 10 THEN SkipSpace(s, g + 1) ELSE 0
    ELSE 0

\* The literal pattern of an xmlns attribute with an empty value.
EmptyXmlnsEnd(s, i) == IF StartsAt(s, i, LitEmptyXmlns) THEN i + 8 ELSE 0

\* '&nbsp;'
NbspEnd(s, i) == IF StartsAt(s, i, LitNbsp) THEN i + 6 ELSE 0

MatchEnd(p, s, i) ==
    CASE p = "fence_open" -> FenceOpenEnd(s, i)
      [] p = "fence_close" -> FenceCloseEnd(s, i)
      [] p = "xml_decl" -> XmlDeclEnd(s, i)
      [] p = "doctype" -> DoctypeEnd(s, i)
      [] p = "empty_xmlns" -> EmptyXmlnsEnd(s, i)
      [] p = "nbsp" -> NbspEnd(s, i)

\* re.sub(p, repl, s) and str.replace(old, repl): every match, left to right,
\* none overlapping, each replaced by repl; the scan goes on after the match.
RECURSIVE ReSubFrom(_, _, _, _)
ReSubFrom(p, repl, s, i) ==
    LET S == {j \in i..Len(s) : MatchEnd(p, s, j) > 0}
    IN  IF S = {} THEN SubSeq(s, i, Len(s))
        ELSE LET j == MinOf(S)
             IN  SubSeq(s, i, j - 1) \o repl \o ReSubFrom(p, repl, s, MatchEnd(p, s, j))
ReSub(p, repl, s) == ReSubFrom(p, repl, s, 1)

(***************************************************************************)
(* clean_svg_response and validate_and_fix_svg.                            *)
(***************************************************************************)
\* The two fence substitutions that open clean_svg_response.
StripFences(s) == ReSub("fence_close", <<>>, ReSub("fence_open", <<>>, s))

\* The XML declaration and the DOCTYPE substitutions.
StripProlog(s) == ReSub("doctype", <<>>, ReSub("xml_decl", <<>>, s))

\* The two repairs of common mistakes: the empty xmlns attribute is removed and
\* the entity &nbsp; becomes a space.
FixMistakes(s) == ReSub("nbsp", <<" ">>, ReSub("empty_xmlns", <<>>, s))

clean_svg_response(svg_code) == Strip(FixMistakes(StripProlog(StripFences(svg_code))))

\* re.search(r'<svg[^>]*>.*</svg>', s, re.DOTALL) tried at each '<svg' from
\* index i on: [^>]* ends at the first '>' after '<svg' and the greedy .* ends
\* at the last '</svg>' of the text.  The empty text stands for no match.
RECURSIVE SvgSpanFrom(_, _)
SvgSpanFrom(s, i) ==
    LET a == FindLit(s, LitSvgOpen, i)
        g == IF a = 0 THEN 0 ELSE FindChar(s, ">", a + 4)
        z == RFindLit(s, LitSvgClose)
    IN  IF a = 0 THEN <<>>
        ELSE IF g > 0 /\ z >= g + 1 THEN SubSeq(s, a, z + 5)
        ELSE SvgSpanFrom(s, a + 1)
SvgSpan(s) == SvgSpanFrom(s, 1)

\* The synthesized element that wraps a text holding no svg span.
WrapInSvg(s, width, height) ==
    LitSvgOpen \o LitNsAttr \o LitViewBoxHead \o ToStr(width) \o <<" ">>
        \o ToStr(height) \o <<"\"", ">">> \o s \o LitSvgClose

\* The first step of validate_and_fix_svg: the text is kept when it starts
\* with '<svg', else the svg span is extracted, else the text is wrapped.
ExtractOrWrap(s, width, height) ==
    IF ~StartsWith(s, LitSvgOpen)
    THEN IF SvgSpan(s) # <<>> THEN SvgSpan(s) ELSE WrapInSvg(s, width, height)
    ELSE s

\* The fault of an xmlns step that is left out.
EnsureXmlnsSkipped(s) == s

\* The xmlns step: when the text holds no 'xmlns=', the first '<svg' gets one.
EnsureXmlns(s) ==
    IF ~Contains(s, LitXmlnsEq)
    THEN ReplaceFirst(s, LitSvgOpen, LitSvgOpen \o LitNsAttr)
    ELSE s

\* The fault of a viewBox step that is left out.
EnsureViewBoxSkipped(s, width, height) == s

\* The viewBox step: when the text holds no 'viewBox=', the first '<svg' gets one.
EnsureViewBox(s, width, height) ==
    IF ~Contains(s, LitViewBoxEq)
    THEN ReplaceFirst(s, LitSvgOpen,
             LitSvgOpen \o LitViewBoxHead \o ToStr(width) \o <<" ">>
                 \o ToStr(height) \o <<"\"">>)
    ELSE s

validate_and_fix_svg(svg_code, width, height) ==
    EnsureViewBox(EnsureXmlns(ExtractOrWrap(svg_code, width, height)), width, height)

(***************************************************************************)
(* Elements.  A source element is what xml.etree.ElementTree yields: tag   *)
(* and attribute keys are texts, a qualified name being written            *)
(* {namespace}local.  A host element is what import_element builds with    *)
(* inkex: its class, tag, attributes (in the order they were set), text    *)
(* and children.  The empty text stands for None and for ''.               *)
(***************************************************************************)
TagRect == <<"r", "e", "c", "t">>
TagCircle == <<"c", "i", "r", "c", "l", "e">>
TagEllipse == <<"e", "l", "l", "i", "p", "s", "e">>
TagLine == <<"l", "i", "n", "e">>
TagPolyline == <<"p", "o", "l", "y", "l", "i", "n", "e">>
TagPolygon == <<"p", "o", "l", "y", "g", "o", "n">>
TagPath == <<"p", "a", "t", "h">>
TagText == <<"t", "e", "x", "t">>
TagTspan == <<"t", "s", "p", "a", "n">>
TagG == <<"g">>
TagDefs == <<"d", "e", "f", "s">>
TagUse == <<"u", "s", "e">>
TagClipPath == <<"c", "l", "i", "p", "P", "a", "t", "h">>
TagMask == <<"m", "a", "s", "k">>
TagLinearGradient ==
    <<"l", "i", "n", "e", "a", "r", "G", "r", "a", "d", "i", "e", "n", "t">>
TagRadialGradient ==
    <<"r", "a", "d", "i", "a", "l", "G", "r", "a", "d", "i", "e", "n", "t">>
TagStop == <<"s", "t", "o", "p">>
TagImage == <<"i", "m", "a", "g", "e">>
TagTitle == <<"t", "i", "t", "l", "e">>
TagDesc == <<"d", "e", "s", "c">>
TagSymbol == <<"s", "y", "m", "b", "o", "l">>
TagMarker == <<"m", "a", "r", "k", "e", "r">>
TagPattern == <<"p", "a", "t", "t", "e", "r", "n">>
TagFilter == <<"f", "i", "l", "t", "e", "r">>
TagStyle == <<"s", "t", "y", "l", "e">>
KeyTransform == <<"t", "r", "a", "n", "s", "f", "o", "r", "m">>
KeyId == <<"i", "d">>

\* The classes of element_map, by tag (the local names import_element knows).
element_map ==
    [t \in {TagRect, TagCircle, TagEllipse, TagLine, TagPolyline, TagPolygon,
            TagPath, TagText, TagTspan, TagG, TagDefs, TagUse, TagClipPath,
            TagMask, TagLinearGradient, TagRadialGradient, TagStop, TagImage,
            TagTitle, TagDesc, TagSymbol, TagMarker, TagPattern, TagFilter,
            TagStyle} |->
        CASE t = TagRect -> "Rectangle"
          [] t = TagCircle -> "Circle"
          [] t = TagEllipse -> "Ellipse"
          [] t = TagLine -> "Line"
          [] t = TagPolyline -> "Polyline"
          [] t = TagPolygon -> "Polygon"
          [] t = TagPath -> "PathElement"
          [] t = TagText -> "TextElement"
          [] t = TagTspan -> "Tspan"
          [] t = TagG -> "Group"
          [] t = TagDefs -> "Defs"
          [] t = TagUse -> "Use"
          [] t = TagClipPath -> "ClipPath"
          [] t = TagMask -> "Mask"
          [] t = TagLinearGradient -> "LinearGradient"
          [] t = TagRadialGradient -> "RadialGradient"
          [] t = TagStop -> "Stop"
          [] t = TagImage -> "Image"
          [] t = TagTitle -> "Title"
          [] t = TagDesc -> "Desc"
          [] t = TagSymbol -> "Symbol"
          [] t = TagMarker -> "Marker"
          [] t = TagPattern -> "Pattern"
          [] t = TagFilter -> "Filter"
          [] t = TagStyle -> "StyleElement"]

container_tags ==
    {TagG, TagDefs, TagClipPath, TagMask, TagSymbol, TagMarker, TagPattern,
     TagLinearGradient, TagRadialGradient, TagFilter, TagText}

\* name.split('}')[-1] if '}' in name else name: what follows the last '}'.
LastBrace(name) ==
    LET S == {j \in 1..Len(name) : name[j] = "}"}
    IN  IF S = {} THEN 0 ELSE MaxOf(S)
LocalName(name) == SubSeq(name, LastBrace(name) + 1, Len(name))

\* The value None, in the shape of a host element.
None == [cls |-> "None", tag |-> <<>>, attrib |-> <<>>, text |-> <<>>, children |-> <<>>]

\* A host element fresh from its constructor.
NewElement(cls, tag) ==
    [cls |-> cls, tag |-> tag, attrib |-> <<>>, text |-> <<>>, children |-> <<>>]

\* A dict, as the sequence of its <<key, value>> pairs in insertion order.
DictHas(d, key) == \E n \in 1..Len(d) : d[n][1] = key
DictGet(d, key, default) ==
    IF DictHas(d, key) THEN d[CHOOSE n \in 1..Len(d) : d[n][1] = key][2] ELSE default
\* d[key] = value: the value of a key already there is replaced in place, a
\* new key comes last.
DictSet(d, key, value) ==
    IF DictHas(d, key)
    THEN [n \in 1..Len(d) |-> IF d[n][1] = key THEN <<key, value>> ELSE d[n]]
    ELSE Append(d, <<key, value>>)

\* elem.get(key, '') and elem.set(key, value)
GetAttr(elem, key) == DictGet(elem.attrib, key, <<>>)
SetAttr(elem, key, value) == [elem EXCEPT !.attrib = DictSet(elem.attrib, key, value)]

\* elem.append(child)
AppendChild(elem, child) == [elem EXCEPT !.children = Append(elem.children, child)]

\* The attribute values for which the host's set raises: inkex parses the
\* value of a transform attribute when it is set and raises on one it cannot
\* read.  The model's one such value is the text bogus.
HostRaisesOnSet(key, value) == key = KeyTransform /\ value = <<"b", "o", "g", "u", "s">>

\* The attribute loop of import_element for a tag of element_map: every
\* source attribute is set under its key without the namespace.
RECURSIVE CopyAttrsClean(_, _, _)
CopyAttrsClean(elem, attrib, n) ==
    IF n > Len(attrib) THEN elem
    ELSE CopyAttrsClean(SetAttr(elem, LocalName(attrib[n][1]), attrib[n][2]), attrib, n + 1)

\* The fault of a generic branch that copies no attribute.
CopyAttrsRawNone(elem, attrib, n) == elem

\* The attribute loop of the generic branch: the key is set as it is.
RECURSIVE CopyAttrsRaw(_, _, _)
CopyAttrsRaw(elem, attrib, n) ==
    IF n > Len(attrib) THEN elem
    ELSE CopyAttrsRaw(SetAttr(elem, attrib[n][1], attrib[n][2]), attrib, n + 1)

\* The fault of a child that ends the import of the siblings after it.
RECURSIVE import_element(_)
RECURSIVE ImportChildrenUntilNone(_, _)
ImportChildrenUntilNone(children, n) ==
    IF n > Len(children) THEN <<>>
    ELSE LET child_elem == import_element(children[n])
         IN  IF child_elem # None
             THEN <<child_elem>> \o ImportChildrenUntilNone(children, n + 1)
             ELSE <<>>

\* import_element: the host element for a source element, None when building
\* it raised.  Children are imported for the container tags only, those that
\* come back None being left out.
RECURSIVE ImportChildren(_, _)
ImportChildren(children, n) ==
    IF n > Len(children) THEN <<>>
    ELSE LET child_elem == import_element(children[n])
         IN  (IF child_elem # None THEN <<child_elem>> ELSE <<>>)
                 \o ImportChildren(children, n + 1)
import_element(et_element) ==
    LET tag == LocalName(et_element.tag)
    IN  IF tag \in DOMAIN element_map
        THEN IF \E n \in 1..Len(et_element.attrib) :
                    HostRaisesOnSet(LocalName(et_element.attrib[n][1]),
                                    et_element.attrib[n][2])
             THEN None
             ELSE LET e1 == CopyAttrsClean(NewElement(element_map[tag], tag),
                                           et_element.attrib, 1)
                      e2 == IF et_element.text # <<>> /\ Strip(et_element.text) # <<>>
                            THEN [e1 EXCEPT !.text = et_element.text] ELSE e1
                  IN  IF tag \in container_tags
                      THEN [e2 EXCEPT !.children = ImportChildren(et_element.children, 1)]
                      ELSE e2
        ELSE IF \E n \in 1..Len(et_element.attrib) :
                    HostRaisesOnSet(et_element.attrib[n][1], et_element.attrib[n][2])
             THEN None
             ELSE LET e1 == CopyAttrsRaw(NewElement("BaseElement", tag),
                                         et_element.attrib, 1)
                  IN  IF et_element.text # <<>>
                      THEN [e1 EXCEPT !.text = et_element.text] ELSE e1

(***************************************************************************)
(* Numbers.  Positions are Python numbers: an int, or the float that a     *)
(* true division by 2 gives.  A number is kept as twice its value (h), so  *)
(* that halves are exact, with the mark of a float, which decides how      *)
(* f"{x}" writes it (300.0, 196.5, 420).                                   *)
(***************************************************************************)
IntNum(n) == [h |-> 2 * n, float |-> FALSE]
\* n / 2
HalfOf(n) == [h |-> n, float |-> TRUE]
\* a float of integral value
FloatNum(n) == [h |-> 2 * n, float |-> TRUE]
\* x + n, for an int n
PlusInt(x, n) == [h |-> x.h + 2 * n, float |-> x.float]
\* f"{x}"
FmtNum(x) ==
    LET m == IF x.h < 0 THEN 0 - x.h ELSE x.h
        sign == IF x.h < 0 THEN <<"-">> ELSE <<>>
        frac == IF x.float THEN <<".", IF m % 2 = 1 THEN "5" ELSE "0">> ELSE <<>>
    IN  sign \o ToStr(m \div 2) \o frac

(***************************************************************************)
(* Texts of the model's inputs.                                            *)
(***************************************************************************)
Placeholder == <<"s", "k", "-", ".", ".", ".">>
KeyPlaceholderTail == <<"s", "k", "-", ".", ".", ".", "9">>
KeyLive == <<"s", "k", "-", "l", "i", "v", "e">>
KeySaved == <<"s", "k", "-", "s", "a", "v", "e", "d">>
PromptBlank == <<" ", " ">>
PromptShort == <<" ", "a", "b", " ">>
PromptCircle == <<"a", " ", "r", "e", "d", " ", "c", "i", "r", "c", "l", "e">>
KeyFill == <<"f", "i", "l", "l">>
ValUrlG == <<"u", "r", "l", "(", "#", "g", ")">>
ValG == <<"g">>
ReplyFencedText ==
    <<BackQuote, BackQuote, BackQuote, "s", "v", "g", "\n", "<", "s", "v",
      "g", ">", "<", "r", "e", "c", "t", " ", "f", "i", "l", "l", "=", "\"",
      "u", "r", "l", "(", "#", "g", ")", "\"", "/", ">", "<", "d", "e", "f",
      "s", ">", "<", "l", "i", "n", "e", "a", "r", "G", "r", "a", "d", "i",
      "e", "n", "t", " ", "i", "d", "=", "\"", "g", "\"", "/", ">", "<", "/",
      "d", "e", "f", "s", ">", "<", "/", "s", "v", "g", ">", "\n", BackQuote,
      BackQuote, BackQuote>>
ReplyFenceOnlyText == <<BackQuote, BackQuote, BackQuote>>
ReplyBlankText == <<" ", "\n">>
ReplyBrokenText ==
    <<"<", "s", "v", "g", ">", "<", "r", "e", "c", "t", ">", "<", "/", "s",
      "v", "g", ">">>
ReplyMixedText ==
    <<"<", "s", "v", "g", " ", "x", "m", "l", "n", "s", ":", "x", "l", "i",
      "n", "k", "=", "\"", "h", "t", "t", "p", ":", "/", "/", "w", "w", "w",
      ".", "w", "3", ".", "o", "r", "g", "/", "1", "9", "9", "9", "/", "x",
      "l", "i", "n", "k", "\"", ">", "<", "f", "o", "r", "e", "i", "g", "n",
      "O", "b", "j", "e", "c", "t", " ", "x", "l", "i", "n", "k", ":", "h",
      "r", "e", "f", "=", "\"", "#", "a", "\"", ">", "h", "i", "<", "r", "e",
      "c", "t", "/", ">", "<", "/", "f", "o", "r", "e", "i", "g", "n", "O",
      "b", "j", "e", "c", "t", ">", "<", "g", " ", "t", "r", "a", "n", "s",
      "f", "o", "r", "m", "=", "\"", "s", "c", "a", "l", "e", "(", "2", ")",
      "\"", ">", "<", "r", "e", "c", "t", "/", ">", "<", "c", "i", "r", "c",
      "l", "e", " ", "t", "r", "a", "n", "s", "f", "o", "r", "m", "=", "\"",
      "b", "o", "g", "u", "s", "\"", "/", ">", "<", "r", "e", "c", "t", "/",
      ">", "<", "/", "g", ">", "<", "a", " ", "t", "r", "a", "n", "s", "f",
      "o", "r", "m", "=", "\"", "b", "o", "g", "u", "s", "\"", "/", ">", "<",
      "c", "i", "r", "c", "l", "e", "/", ">", "<", "/", "s", "v", "g", ">">>
NsXlinkUrl ==
    <<"h", "t", "t", "p", ":", "/", "/", "w", "w", "w", ".", "w", "3", ".",
      "o", "r", "g", "/", "1", "9", "9", "9", "/", "x", "l", "i", "n", "k">>
TagForeignObject ==
    <<"f", "o", "r", "e", "i", "g", "n", "O", "b", "j", "e", "c", "t">>
TagA == <<"a">>
KeyHref == <<"h", "r", "e", "f">>
ValHrefA == <<"#", "a">>
ValScale2 == <<"s", "c", "a", "l", "e", "(", "2", ")">>
ValBogus == <<"b", "o", "g", "u", "s">>
TextHi == <<"h", "i">>
LitTranslate == <<"t", "r", "a", "n", "s", "l", "a", "t", "e", "(">>
LitAiGenerated ==
    <<"a", "i", "-", "g", "e", "n", "e", "r", "a", "t", "e", "d", "-">>
LitDescHead ==
    <<"A", "I", "-", "g", "e", "n", "e", "r", "a", "t", "e", "d", " ", "S",
      "V", "G", " ", "u", "s", "i", "n", "g", " ">>
NsSvg == <<"{">> \o LitNsUrl \o <<"}">>

NsXlink == <<"{">> \o NsXlinkUrl \o <<"}">>

\* A source element.
Elem(tag, attrib, text, children) ==
    [tag |-> tag, attrib |-> attrib, text |-> text, children |-> children]

(***************************************************************************)
(* The provider's answers.  An answer is the text its envelope holds, with *)
(* what xml.etree.ElementTree.fromstring gives for that text once cleaned  *)
(* and repaired: the children of the root, or a ParseError (ok = FALSE).   *)
(***************************************************************************)
\* A fenced element whose defs come after the shape that refers to them.
ReplyFenced ==
    [text |-> ReplyFencedText,
     parsed |-> [ok |-> TRUE, children |->
        <<Elem(NsSvg \o TagRect, <<<<KeyFill, ValUrlG>>>>, <<>>, <<>>),
          Elem(NsSvg \o TagDefs, <<>>, <<>>,
               <<Elem(NsSvg \o TagLinearGradient, <<<<KeyId, ValG>>>>, <<>>, <<>>)>>)>>]]
\* A code fence and nothing else: not empty, and empty once cleaned.
ReplyFenceOnly == [text |-> ReplyFenceOnlyText, parsed |-> [ok |-> FALSE, children |-> <<>>]]
\* White space only: empty once stripped.
ReplyBlank == [text |-> ReplyBlankText, parsed |-> [ok |-> FALSE, children |-> <<>>]]
\* An element that is not well formed.
ReplyBroken == [text |-> ReplyBrokenText, parsed |-> [ok |-> FALSE, children |-> <<>>]]
\* An element with children of every kind: a tag import_element does not
\* know, with a qualified attribute, a text and a child; a group that has a
\* transform and, between two shapes, a shape whose transform the host cannot
\* read; an unknown tag with such a transform; and a shape.
ReplyMixed ==
    [text |-> ReplyMixedText,
     parsed |-> [ok |-> TRUE, children |->
        <<Elem(NsSvg \o TagForeignObject, <<<<NsXlink \o KeyHref, ValHrefA>>>>, TextHi,
               <<Elem(NsSvg \o TagRect, <<>>, <<>>, <<>>)>>),
          Elem(NsSvg \o TagG, <<<<KeyTransform, ValScale2>>>>, <<>>,
               <<Elem(NsSvg \o TagRect, <<>>, <<>>, <<>>),
                 Elem(NsSvg \o TagCircle, <<<<KeyTransform, ValBogus>>>>, <<>>, <<>>),
                 Elem(NsSvg \o TagRect, <<>>, <<>>, <<>>)>>),
          Elem(NsSvg \o TagA, <<<<KeyTransform, ValBogus>>>>, <<>>, <<>>),
          Elem(NsSvg \o TagCircle, <<>>, <<>>, <<>>)>>]]
Replies == {ReplyFenced, ReplyFenceOnly, ReplyBlank, ReplyBroken, ReplyMixed}

\* The errors a provider call raises: an HTTP error and a network error.
ApiError == "API Error (500): overloaded"
NetworkError == "Network Error: timed out"
ProviderErrors == {ApiError, NetworkError}
NoResponse == "No response from API"
UnknownProvider == "Unknown provider"
\* raise None
RaiseNoneError == "TypeError: exceptions must derive from BaseException"
NoError == "None"

(***************************************************************************)
(* Options (add_arguments), the saved configuration and the host document. *)
(***************************************************************************)
ProvOpenai == <<"o", "p", "e", "n", "a", "i">>
ProvAnthropic == <<"a", "n", "t", "h", "r", "o", "p", "i", "c">>
ProvGoogle == <<"g", "o", "o", "g", "l", "e">>
ProvOllama == <<"o", "l", "l", "a", "m", "a">>
ProvOllamaCapital == <<"O", "l", "l", "a", "m", "a">>
ProvMistral == <<"m", "i", "s", "t", "r", "a", "l">>
ModelGpt4Turbo == <<"g", "p", "t", "-", "4", "-", "t", "u", "r", "b", "o">>
GroupNameSun == <<"s", "u", "n">>
UniqueSuffix == <<"7", "3", "1", "9">>

\* str.lower(), on the letters the provider names use.
LowerChar(c) == CASE c = "O" -> "o" [] c = "A" -> "a" [] c = "G" -> "g" [] c = "M" -> "m"
                  [] OTHER -> c
Lower(s) == [n \in 1..Len(s) |-> LowerChar(s[n])]

\* The providers call_api routes to.
KnownProviders == {ProvOpenai, ProvAnthropic, ProvGoogle, ProvOllama}

\* Model names: the families of the three cloud providers and two local ones.
ModelClaudeOpus ==
    <<"c", "l", "a", "u", "d", "e", "-", "3", "-", "o", "p", "u", "s">>
ModelGeminiPro == <<"g", "e", "m", "i", "n", "i", "-", "p", "r", "o">>
ModelLlama == <<"l", "l", "a", "m", "a", "3", ".", "1">>
ModelMistral == <<"m", "i", "s", "t", "r", "a", "l">>
DefaultClaudeModel ==
    <<"c", "l", "a", "u", "d", "e", "-", "3", "-", "5", "-", "s", "o", "n",
      "n", "e", "t", "-", "2", "0", "2", "4", "1", "0", "2", "2">>
DefaultGeminiModel ==
    <<"g", "e", "m", "i", "n", "i", "-", "1", ".", "5", "-", "f", "l", "a",
      "s", "h">>
DefaultOllamaModel == <<"l", "l", "a", "m", "a", "3", ".", "1">>
LitGpt == <<"g", "p", "t">>
LitClaude == <<"c", "l", "a", "u", "d", "e">>
LitGemini == <<"g", "e", "m", "i", "n", "i">>

\* The model name each adapter puts in its request (data['model'], and for
\* google the model of the url), for the provider call_api routes to.
OpenaiWireModel(model) == model
AnthropicWireModel(model) ==
    IF ~StartsWith(model, LitClaude) THEN DefaultClaudeModel ELSE model
GoogleWireModel(model) ==
    IF ~StartsWith(model, LitGemini) THEN DefaultGeminiModel ELSE model
OllamaWireModel(model) ==
    IF StartsWith(model, LitGpt) \/ StartsWith(model, LitClaude)
          \/ StartsWith(model, LitGemini)
    THEN DefaultOllamaModel ELSE model
WireModel(provider, model) ==
    CASE provider = ProvOpenai -> OpenaiWireModel(model)
      [] provider = ProvAnthropic -> AnthropicWireModel(model)
      [] provider = ProvGoogle -> GoogleWireModel(model)
      [] provider = ProvOllama -> OllamaWireModel(model)
      [] OTHER -> <<>>

\* The defaults of add_arguments.
DefaultOptions ==
    [provider |-> ProvOpenai, api_key |-> <<>>, save_api_key |-> FALSE,
     prompt |-> <<>>, model |-> ModelGpt4Turbo, retry_count |-> 2,
     size |-> "medium", custom_width |-> 400, custom_height |-> 400,
     aspect_ratio |-> "square", add_group |-> TRUE, group_name |-> <<>>,
     position |-> "center", add_accessibility |-> FALSE, variations |-> 1,
     style_hint |-> "none", color_scheme |-> "any", save_to_history |-> TRUE,
     prompt_preset |-> "none", complexity |-> "medium", stroke_style |-> "any",
     include_gradients |-> TRUE, include_animations |-> FALSE,
     optimize_paths |-> TRUE, use_selection_context |-> FALSE]

\* load_config when no file is there, and a file that holds a key for p.
EmptyConfig == [api_keys |-> <<>>]
ConfigWith(p, key) == [api_keys |-> <<<<p, key>>>>]

\* The bounding box of a selected element; NoBox is an element without one.
Box(left, top, right, bottom) ==
    [has |-> TRUE, left |-> left, top |-> top, right |-> right, bottom |-> bottom]
NoBox == [has |-> FALSE, left |-> 0, top |-> 0, right |-> 0, bottom |-> 0]

\* The host document: the viewport and the boxes of the selected elements.
Host(w, h, selection) == [viewport_width |-> w, viewport_height |-> h, selection |-> selection]
DefaultHost == Host(1000, 800, <<>>)

\* The bounds of the inputs.
MaxRetry == 2
MaxVariationsOpt == 5

\* Options that pass the two checks of effect.
ValidOptions == [DefaultOptions EXCEPT !.api_key = KeyLive, !.prompt = PromptCircle]

\* The inputs of a run: the options, the saved configuration and the host.
\* Each family varies some options and leaves the others at their defaults.
\* The checks of the key and of the prompt.
PrecheckInputs ==
    {<<[DefaultOptions EXCEPT !.provider = p, !.api_key = key, !.save_api_key = s,
                              !.prompt = pr], c, DefaultHost>> :
        p \in {ProvOpenai, ProvAnthropic, ProvGoogle, ProvOllama, ProvOllamaCapital,
               ProvMistral},
        key \in {<<>>, Placeholder, KeyPlaceholderTail, KeyLive},
        s \in BOOLEAN,
        pr \in {<<>>, PromptBlank, PromptShort, PromptCircle},
        c \in {EmptyConfig} \cup
              {ConfigWith(q, KeySaved) : q \in {ProvOpenai, ProvOllamaCapital}}}
\* The number of variations (with a group; the merge inputs run without one).
CountInputs ==
    {<<[ValidOptions EXCEPT !.variations = v, !.retry_count = 0],
       EmptyConfig, DefaultHost>> :
        v \in (0 - 1)..MaxVariationsOpt}
\* The retries.
RetryInputs ==
    {<<[ValidOptions EXCEPT !.variations = v, !.retry_count = r],
       EmptyConfig, DefaultHost>> :
        v \in {1, 2}, r \in (0 - 1)..MaxRetry}
\* The merge: grouping, placement, size and the host document.
MergeInputs ==
    {<<[ValidOptions EXCEPT !.variations = v, !.retry_count = 0, !.add_group = g,
                            !.position = pos, !.size = sz,
                            !.custom_width = 7, !.custom_height = 1000],
       EmptyConfig, h>> :
        v \in {1, 2}, g \in BOOLEAN,
        pos \in {"center", "origin", "selection", "cursor"},
        sz \in {"medium", "custom"},
        h \in {DefaultHost,
               Host(793, 1123, <<NoBox, Box(10, 40, 120, 90), Box(50, 30, 150, 60)>>),
               Host(300, 200, <<NoBox>>)}}
\* The group: its name and the title and description.
GroupInputs ==
    {<<[ValidOptions EXCEPT !.variations = v, !.retry_count = 0, !.size = "small",
                            !.aspect_ratio = ar, !.add_accessibility = acc,
                            !.group_name = gn],
       EmptyConfig, DefaultHost>> :
        v \in {1, 2}, ar \in {"widescreen", "portrait"},
        acc \in BOOLEAN, gn \in {<<>>, GroupNameSun}}
\* The adapters: every provider with a model name of every family.
AdapterInputs ==
    {<<[ValidOptions EXCEPT !.provider = p, !.model = m, !.retry_count = 1],
       EmptyConfig, DefaultHost>> :
        p \in {ProvOpenai, ProvAnthropic, ProvGoogle, ProvOllama},
        m \in {ModelGpt4Turbo, ModelClaudeOpus, ModelGeminiPro, ModelLlama, ModelMistral}}
Inputs ==
    PrecheckInputs \cup CountInputs \cup RetryInputs \cup MergeInputs \cup GroupInputs
        \cup AdapterInputs

(***************************************************************************)
(* State.                                                                  *)
(***************************************************************************)
VARIABLES
    options,        \* self.options
    config,         \* the saved configuration (the file at config_path)
    host,           \* the host document's viewport and selection
    pc,             \* where effect stands
    api_key,        \* effect's api_key
    width, height,  \* effect's width and height (get_size)
    variations,     \* effect's variations, the clamped count
    i,              \* effect's loop index
    attempt,        \* call_api_with_retry's loop index
    last_error,     \* call_api_with_retry's last_error
    attempt_log,    \* the attempts of the current call_api_with_retry, in order
    call_result,    \* how the last call_api_with_retry ended
    network_calls,  \* the number of requests sent to a provider
    svg_code,       \* effect's svg_code
    svg_root,       \* add_svg_to_document's parsed fragment
    pos_x, pos_y,   \* add_svg_to_document's position
    group,          \* add_svg_to_document's group, not yet in the document
    k,              \* the index of the child a merge loop stands at
    merge_log,      \* what the current merge did, in order
    layer,          \* the children of the host's current layer
    doc_defs,       \* the children of the host's defs
    messages,       \* what inkex.errormsg was called with, in order
    started,        \* the loop indices whose pipeline has started, in order
    history,        \* the saved history (the file at history_path)
    t_in, t_size, t_ops, t_prev, t_out,  \* the sanitizer run alone (SpecText)
    clock,          \* the reading datetime.now() gives, counted in calls
    saves,          \* the number of save_to_history calls made (SpecHistory)
    history_before, \* the stored history before the last save_to_history call
    prompt_lines,   \* the lines of the text build_prompt returned (SpecPrompt)
    prompt_built,   \* whether build_prompt has run (SpecPrompt)
    source_element, \* the element import_element is called on (SpecImport)
    imported,       \* what import_element returned (SpecImport)
    import_done     \* whether import_element has run (SpecImport)

run_vars ==
    <<options, config, host, pc, api_key, width, height, variations, i, attempt,
      last_error, attempt_log, call_result, network_calls, svg_code, svg_root,
      pos_x, pos_y, group, k, merge_log, layer, doc_defs, messages, started, history>>
text_vars == <<t_in, t_size, t_ops, t_prev, t_out>>
hist_vars == <<clock, saves, history_before>>
prompt_vars == <<prompt_lines, prompt_built>>
import_vars == <<source_element, imported, import_done>>
aux_vars == <<hist_vars, prompt_vars, import_vars>>
vars == <<run_vars, text_vars, aux_vars>>

\* A node the host document holds before the run.
HostLayerNode == NewElement("Layer", TagG)

NoResult == [kind |-> "none", text |-> <<>>, error |-> NoError, reply |-> ReplyBlank]
NoParse == [ok |-> FALSE, children |-> <<>>]

\* The state of a run before effect is called, for the inputs inp; at is
\* "start", or "idle" when effect is not to run. The stored history is apart.
RunFields(inp, at) ==
    /\ options = inp[1]
    /\ config = inp[2]
    /\ host = inp[3]
    /\ pc = at
    /\ api_key = <<>>
    /\ width = 0
    /\ height = 0
    /\ variations = 0
    /\ i = 0
    /\ attempt = 0
    /\ last_error = NoError
    /\ attempt_log = <<>>
    /\ call_result = NoResult
    /\ network_calls = 0
    /\ svg_code = <<>>
    /\ svg_root = NoParse
    /\ pos_x = IntNum(0)
    /\ pos_y = IntNum(0)
    /\ group = None
    /\ k = 0
    /\ merge_log = <<>>
    /\ layer = <<HostLayerNode>>
    /\ doc_defs = <<>>
    /\ messages = <<>>
    /\ started = <<>>

\* A run that starts with no history file.
RunInit(inp, at) == RunFields(inp, at) /\ history = <<>>

TextIdle ==
    /\ t_in = <<>>
    /\ t_size = <<0, 0>>
    /\ t_ops = <<>>
    /\ t_prev = <<>>
    /\ t_out = <<>>

ImportIdle ==
    /\ source_element = None
    /\ imported = None
    /\ import_done = FALSE

AuxIdle ==
    /\ clock = 0
    /\ saves = 0
    /\ history_before = <<>>
    /\ prompt_lines = <<>>
    /\ prompt_built = FALSE
    /\ ImportIdle

Init == TextIdle /\ AuxIdle /\ \E inp \in Inputs : RunInit(inp, "start")

(***************************************************************************)
(* effect, up to its loop.                                                 *)
(***************************************************************************)
Min(a, b) == IF a < b THEN a ELSE b
Max(a, b) == IF a > b THEN a ELSE b

\* get_size
get_size(o) ==
    LET base == CASE o.size = "small" -> 200 [] o.size = "medium" -> 400
                  [] o.size = "large" -> 600 [] o.size = "xlarge" -> 800
                  [] OTHER -> 400
        ratio == CASE o.aspect_ratio = "square" -> <<1, 1>>
                   [] o.aspect_ratio = "landscape" -> <<4, 3>>
                   [] o.aspect_ratio = "portrait" -> <<3, 4>>
                   [] o.aspect_ratio = "widescreen" -> <<16, 9>>
                   [] o.aspect_ratio = "banner" -> <<3, 1>>
                   [] o.aspect_ratio = "icon" -> <<1, 1>>
                   [] OTHER -> <<1, 1>>
    IN  IF o.size = "custom" THEN <<o.custom_width, o.custom_height>>
        ELSE IF ratio[1] >= ratio[2]
             THEN <<base, (base * ratio[2]) \div ratio[1]>>
             ELSE <<(base * ratio[1]) \div ratio[2], base>>

\* The key effect goes on with: the option, or the saved key of the provider
\* when the option is empty or the placeholder.
EffectiveKey(o, c) ==
    IF (o.api_key = <<>> \/ o.api_key = Placeholder) /\ DictHas(c.api_keys, o.provider)
    THEN DictGet(c.api_keys, o.provider, <<>>)
    ELSE o.api_key

\* The check of the key: every provider but ollama needs one that is not empty
\* and does not start with the placeholder.
KeyRejected(o, key) ==
    o.provider # ProvOllama /\ (key = <<>> \/ StartsWith(key, Placeholder))

\* The fault of a prompt check that measures the prompt before it is stripped.
PromptRejectedNoStrip(prompt) == prompt = <<>> \/ Len(prompt) < 3

\* The check of the prompt.
PromptRejected(prompt) == prompt = <<>> \/ Len(Strip(prompt)) < 3

\* The fault of a clamp without its lower limit.
ClampVariationsNoFloor(v) == Min(v, 4)

\* min(max(1, self.options.variations), 4)
ClampVariations(v) == Min(Max(1, v), 4)

\* save_api_key
SaveApiKey(c, o, key) == [api_keys |-> DictSet(c.api_keys, o.provider, key)]

Msg(kind, variation, detail) == [kind |-> kind, variation |-> variation, detail |-> detail]

\* effect from its first line to the loop: the two checks, each of which ends
\* the run with a message, the saving of the key between them, the size and
\* the count of variations.
Precheck ==
    /\ pc = "start"
    /\ LET key == EffectiveKey(options, config)
           c1 == IF options.save_api_key /\ key # <<>>
                 THEN SaveApiKey(config, options, key) ELSE config
       IN  /\ api_key' = key
           /\ IF KeyRejected(options, key)
              THEN /\ messages' = Append(messages, Msg("no_api_key", 0, ""))
                   /\ pc' = "done"
                   /\ UNCHANGED <<config, width, height, variations>>
              ELSE /\ config' = c1
                   /\ IF PromptRejected(options.prompt)
                      THEN /\ messages' = Append(messages, Msg("no_prompt", 0, ""))
                           /\ pc' = "done"
                           /\ UNCHANGED <<width, height, variations>>
                      ELSE /\ width' = get_size(options)[1]
                           /\ height' = get_size(options)[2]
                           /\ variations' = ClampVariations(options.variations)
                           /\ pc' = "loop"
                           /\ UNCHANGED messages
    /\ UNCHANGED <<options, host, i, attempt, last_error, attempt_log, call_result,
                   network_calls, svg_code, svg_root, pos_x, pos_y, group, k,
                   merge_log, layer, doc_defs, started, history, text_vars, aux_vars>>

(***************************************************************************)
(* The loop of effect and call_api_with_retry.                             *)
(***************************************************************************)
\* The fault of a loop over range(retry_count): one attempt too few.
AttemptsAllowedOffByOne(retry_count) == retry_count

\* range(self.options.retry_count + 1): the attempts call_api_with_retry makes.
AttemptsAllowed(retry_count) == retry_count + 1

\* The fault of a loop that ends at the first variation that fails (break).
AfterFailureBreak(idx, total) == total

\* Where effect's loop goes after a variation failed: continue.
AfterFailure(idx, total) == idx + 1

\* for i in range(variations): the pipeline of variation i starts with the
\* call of call_api_with_retry.
StartVariation ==
    /\ pc = "loop"
    /\ i < variations
    /\ started' = Append(started, i)
    /\ attempt' = 0
    /\ last_error' = NoError
    /\ attempt_log' = <<>>
    /\ call_result' = NoResult
    /\ pc' = "retry"
    /\ UNCHANGED <<options, config, host, api_key, width, height, variations, i,
                   network_calls, svg_code, svg_root, pos_x, pos_y, group, k,
                   merge_log, layer, doc_defs, messages, history, text_vars, aux_vars>>

\* The model name of the request an attempt sends; empty when call_api knows
\* no adapter for the provider and sends nothing.
SentModel == WireModel(Lower(options.provider), options.model)

\* No answer: the request was not sent or ended in an error.
NoReply == [text |-> <<>>, parsed |-> [ok |-> FALSE, children |-> <<>>]]

\* An attempt that raised e: the except clause keeps e and the loop goes on.
AttemptFailed(e, reply) ==
    /\ last_error' = e
    /\ attempt' = attempt + 1
    /\ attempt_log' = Append(attempt_log, [ok |-> FALSE, text |-> <<>>, error |-> e,
                                           model |-> SentModel, reply |-> reply])
    /\ UNCHANGED <<pc, call_result>>

\* The fault of an attempt whose cleaned text is empty and is taken as failed.
AttemptReturnedUnlessEmpty(text, reply) ==
    IF text = <<>> THEN AttemptFailed(NoResponse, reply)
    ELSE /\ attempt_log' = Append(attempt_log, [ok |-> TRUE, text |-> text,
                                                error |-> NoError, model |-> SentModel,
                                                reply |-> reply])
         /\ call_result' = [kind |-> "returned", text |-> text, error |-> NoError,
                            reply |-> reply]
         /\ pc' = "returned"
         /\ UNCHANGED <<last_error, attempt>>

\* An attempt that returned text: call_api_with_retry returns it.
AttemptReturned(text, reply) ==
    /\ attempt_log' = Append(attempt_log, [ok |-> TRUE, text |-> text, error |-> NoError,
                                           model |-> SentModel, reply |-> reply])
    /\ call_result' = [kind |-> "returned", text |-> text, error |-> NoError, reply |-> reply]
    /\ pc' = "returned"
    /\ UNCHANGED <<last_error, attempt>>

\* call_api for a provider it does not know: it raises without a request.
AttemptUnknownProvider ==
    /\ pc = "retry"
    /\ attempt < AttemptsAllowed(options.retry_count)
    /\ Lower(options.provider) \notin KnownProviders
    /\ AttemptFailed(UnknownProvider, NoReply)
    /\ UNCHANGED <<options, config, host, api_key, width, height, variations, i,
                   network_calls, svg_code, svg_root, pos_x, pos_y, group, k,
                   merge_log, layer, doc_defs, messages, started, history, text_vars, aux_vars>>

\* One request that ends in an HTTP or a network error (_make_api_request).
AttemptError ==
    /\ pc = "retry"
    /\ attempt < AttemptsAllowed(options.retry_count)
    /\ Lower(options.provider) \in KnownProviders
    /\ network_calls' = network_calls + 1
    /\ \E e \in ProviderErrors : AttemptFailed(e, NoReply)
    /\ UNCHANGED <<options, config, host, api_key, width, height, variations, i,
                   svg_code, svg_root, pos_x, pos_y, group, k,
                   merge_log, layer, doc_defs, messages, started, history, text_vars, aux_vars>>

\* One request that is answered (_make_api_request, _parse_response): the text
\* of the envelope is stripped; empty, it raises, else it is cleaned and
\* returned.
AttemptAnswered ==
    /\ pc = "retry"
    /\ attempt < AttemptsAllowed(options.retry_count)
    /\ Lower(options.provider) \in KnownProviders
    /\ network_calls' = network_calls + 1
    /\ \E r \in Replies :
          LET stripped == Strip(r.text)
          IN  IF stripped = <<>>
              THEN AttemptFailed(NoResponse, r)
              ELSE AttemptReturned(clean_svg_response(stripped), r)
    /\ UNCHANGED <<options, config, host, api_key, width, height, variations, i,
                   svg_code, svg_root, pos_x, pos_y, group, k,
                   merge_log, layer, doc_defs, messages, started, history, text_vars, aux_vars>>

\* The loop of call_api_with_retry is over: raise last_error, which effect's
\* except clause reports before it goes on with the next variation.
AttemptsExhausted ==
    /\ pc = "retry"
    /\ attempt >= AttemptsAllowed(options.retry_count)
    /\ LET e == IF last_error = NoError THEN RaiseNoneError ELSE last_error
       IN  /\ call_result' = [kind |-> "raised", text |-> <<>>, error |-> e,
                              reply |-> ReplyBlank]
           /\ messages' = Append(messages, Msg("variation_error", i + 1, e))
    /\ i' = AfterFailure(i, variations)
    /\ pc' = "loop"
    /\ UNCHANGED <<options, config, host, api_key, width, height, variations,
                   attempt, last_error, attempt_log, network_calls, svg_code,
                   svg_root, pos_x, pos_y, group, k, merge_log, layer, doc_defs,
                   started, history, text_vars, aux_vars>>

(***************************************************************************)
(* add_svg_to_document.                                                    *)
(***************************************************************************)
\* The fault of an offset without the gap between two variations.
OffsetXNoGap(idx, w, count) == IF count > 1 THEN idx * w ELSE 0

\* The offset of variation idx: i * (width + 20) if variations > 1 else 0.
OffsetX(idx, w, count) == IF count > 1 THEN idx * (w + 20) ELSE 0

\* (doc_width - target_width) / 2
CenterBase(doc, target) == HalfOf(doc - target)

\* The union of the boxes of the selected elements that have one: its right
\* edge and its top.
RECURSIVE UnionRight(_, _)
UnionRight(sel, n) ==
    IF n > Len(sel) THEN 0
    ELSE IF ~sel[n].has THEN UnionRight(sel, n + 1)
    ELSE IF \E m \in (n + 1)..Len(sel) : sel[m].has
         THEN Max(sel[n].right, UnionRight(sel, n + 1))
         ELSE sel[n].right
RECURSIVE UnionTop(_, _)
UnionTop(sel, n) ==
    IF n > Len(sel) THEN 0
    ELSE IF ~sel[n].has THEN UnionTop(sel, n + 1)
    ELSE IF \E m \in (n + 1)..Len(sel) : sel[m].has
         THEN Min(sel[n].top, UnionTop(sel, n + 1))
         ELSE sel[n].top

\* The position before the offset of the variation: the origin, the place to
\* the right of the selection, or the centre of the viewport.
Placement(o, h, target_width, target_height) ==
    IF o.position = "origin" THEN <<IntNum(0), IntNum(0)>>
    ELSE IF o.position = "selection" /\ h.selection # <<>>
            /\ \E n \in 1..Len(h.selection) : h.selection[n].has
         THEN <<FloatNum(UnionRight(h.selection, 1) + 20), FloatNum(UnionTop(h.selection, 1))>>
         ELSE <<CenterBase(h.viewport_width, target_width),
                CenterBase(h.viewport_height, target_height)>>

\* f'translate({pos_x}, {pos_y})'
TranslateText(x, y) == LitTranslate \o FmtNum(x) \o <<",", " ">> \o FmtNum(y) \o <<")">>

\* self.svg.get_unique_id(prefix): the prefix and what the host adds to it.
get_unique_id(prefix) == prefix \o UniqueSuffix

\* The id of the group of variation variation_num.
GroupId(o, variation_num) ==
    IF o.group_name # <<>>
    THEN IF o.variations > 1
         THEN o.group_name \o <<"-">> \o ToStr(variation_num)
         ELSE o.group_name
    ELSE get_unique_id(LitAiGenerated \o ToStr(variation_num))

\* The group as it is before the children of the fragment are imported: its
\* id, its transform and, when asked for, the title and the description.
NewGroup(o, x, y, variation_num) ==
    LET g1 == SetAttr(SetAttr(NewElement("Group", TagG), KeyId, GroupId(o, variation_num)),
                      KeyTransform, TranslateText(x, y))
        title == [NewElement("Title", TagTitle) EXCEPT
                     !.text = SubSeq(o.prompt, 1, Min(100, Len(o.prompt)))]
        desc == [NewElement("Desc", TagDesc) EXCEPT
                     !.text = LitDescHead \o o.provider \o <<"/">> \o o.model]
    IN  IF o.add_accessibility THEN AppendChild(AppendChild(g1, title), desc) ELSE g1

\* ET.fromstring on the repaired text of an answer.
ET_fromstring(reply) == reply.parsed

\* The locals of add_svg_to_document once it has returned.
MergeLocalsGone ==
    /\ svg_root' = NoParse
    /\ group' = None
    /\ k' = 0
    /\ pos_x' = IntNum(0)
    /\ pos_y' = IntNum(0)

\* effect after call_api_with_retry returned: the empty text is reported and
\* the loop goes on; else the text is repaired and add_svg_to_document parses
\* it, which ends the variation with a message on a ParseError, and else
\* computes the position and creates the group when grouping is on.
AfterCall ==
    /\ pc = "returned"
    /\ IF call_result.text = <<>>
       THEN /\ messages' = Append(messages, Msg("no_svg_code", i + 1, ""))
            /\ i' = AfterFailure(i, variations)
            /\ pc' = "loop"
            /\ UNCHANGED <<svg_code, svg_root, pos_x, pos_y, group, k, merge_log>>
       ELSE LET code == validate_and_fix_svg(call_result.text, width, height)
                offset_x == OffsetX(i, width, variations)
                parsed == ET_fromstring(call_result.reply)
                place == Placement(options, host, width, height)
                x == PlusInt(place[1], offset_x)
            IN  /\ svg_code' = code
                /\ IF ~parsed.ok
                   THEN /\ messages' = Append(messages, Msg("parse_error", 0, ""))
                        /\ i' = i + 1
                        /\ pc' = "loop"
                        /\ UNCHANGED <<svg_root, pos_x, pos_y, group, k, merge_log>>
                   ELSE /\ svg_root' = parsed
                        /\ pos_x' = x
                        /\ pos_y' = place[2]
                        /\ group' = IF options.add_group
                                    THEN NewGroup(options, x, place[2], i + 1) ELSE None
                        /\ k' = 1
                        /\ merge_log' = <<>>
                        /\ pc' = IF options.add_group THEN "defs_pass" ELSE "flat_pass"
                        /\ UNCHANGED <<messages, i>>
    /\ UNCHANGED <<options, config, host, api_key, width, height, variations,
                   attempt, last_error, attempt_log, call_result, network_calls,
                   layer, doc_defs, started, history, text_vars, aux_vars>>

\* import_defs: the children of a defs element that import_element converts,
\* each with its index.
RECURSIVE ImportedDefs(_, _)
ImportedDefs(children, n) ==
    IF n > Len(children) THEN <<>>
    ELSE LET new_elem == import_element(children[n])
         IN  (IF new_elem # None THEN <<<<n, new_elem>>>> ELSE <<>>)
                 \o ImportedDefs(children, n + 1)

\* One turn of the first loop over the children of the root: a defs element
\* is handed to import_defs, which appends its imported children to the
\* host's defs; any other child is passed over.
DefsStep ==
    /\ pc = "defs_pass"
    /\ k <= Len(svg_root.children)
    /\ LET child == svg_root.children[k]
           got == ImportedDefs(child.children, 1)
       IN  IF LocalName(child.tag) = TagDefs
           THEN /\ doc_defs' = doc_defs \o [n \in 1..Len(got) |-> got[n][2]]
                /\ merge_log' = merge_log \o
                       [n \in 1..Len(got) |->
                           [ev |-> "defs_append", top |-> k, child |-> got[n][1]]]
           ELSE UNCHANGED <<doc_defs, merge_log>>
    /\ k' = k + 1
    /\ UNCHANGED <<options, config, host, pc, api_key, width, height, variations, i,
                   attempt, last_error, attempt_log, call_result, network_calls,
                   svg_code, svg_root, pos_x, pos_y, group, layer, messages,
                   started, history, text_vars, aux_vars>>

\* The first loop is over: the second one starts.
DefsDone ==
    /\ pc = "defs_pass"
    /\ k > Len(svg_root.children)
    /\ pc' = "children_pass"
    /\ k' = 1
    /\ UNCHANGED <<options, config, host, api_key, width, height, variations, i,
                   attempt, last_error, attempt_log, call_result, network_calls,
                   svg_code, svg_root, pos_x, pos_y, group, merge_log, layer,
                   doc_defs, messages, started, history, text_vars, aux_vars>>

\* One turn of the second loop: a child that is no defs element is imported
\* and, unless import_element gave None, appended to the group.
ChildStep ==
    /\ pc = "children_pass"
    /\ k <= Len(svg_root.children)
    /\ LET child == svg_root.children[k]
           new_elem == import_element(child)
       IN  IF LocalName(child.tag) # TagDefs
           THEN /\ merge_log' = Append(merge_log, [ev |-> "import", top |-> k, child |-> 0])
                /\ group' = IF new_elem # None THEN AppendChild(group, new_elem) ELSE group
           ELSE UNCHANGED <<merge_log, group>>
    /\ k' = k + 1
    /\ UNCHANGED <<options, config, host, pc, api_key, width, height, variations, i,
                   attempt, last_error, attempt_log, call_result, network_calls,
                   svg_code, svg_root, pos_x, pos_y, layer, doc_defs, messages,
                   started, history, text_vars, aux_vars>>

\* The fault of a group that is appended to the layer while the second loop
\* still runs.
AttachGroupInLoop ==
    /\ pc = "children_pass"
    /\ layer' = Append(layer, group)
    /\ i' = i + 1
    /\ pc' = "loop"
    /\ MergeLocalsGone
    /\ UNCHANGED <<options, config, host, api_key, width, height, variations,
                   attempt, last_error, attempt_log, call_result, network_calls,
                   svg_code, merge_log, doc_defs, messages, started, history,
                   text_vars, aux_vars>>

\* The second loop is over: the group is appended to the current layer and
\* add_svg_to_document returns to the loop of effect.
AttachGroup ==
    /\ pc = "children_pass"
    /\ k > Len(svg_root.children)
    /\ layer' = Append(layer, group)
    /\ i' = i + 1
    /\ pc' = "loop"
    /\ MergeLocalsGone
    /\ UNCHANGED <<options, config, host, api_key, width, height, variations,
                   attempt, last_error, attempt_log, call_result, network_calls,
                   svg_code, merge_log, doc_defs, messages, started, history,
                   text_vars, aux_vars>>

\* The fault of a translation that replaces the transform of the element.
WithTranslationOnly(new_elem, x, y) == SetAttr(new_elem, KeyTransform, TranslateText(x, y))

\* The transform of a top-level element added without a group: the
\* translation, before the transform the element has when it has one.
WithTranslation(new_elem, x, y) ==
    LET existing_transform == GetAttr(new_elem, KeyTransform)
    IN  IF existing_transform # <<>>
        THEN SetAttr(new_elem, KeyTransform,
                     TranslateText(x, y) \o <<" ">> \o existing_transform)
        ELSE SetAttr(new_elem, KeyTransform, TranslateText(x, y))

\* One turn of the loop that adds the elements without a group: every child
\* of the root is imported and, unless import_element gave None, translated
\* and appended to the current layer.
FlatStep ==
    /\ pc = "flat_pass"
    /\ k <= Len(svg_root.children)
    /\ LET new_elem == import_element(svg_root.children[k])
       IN  /\ merge_log' = Append(merge_log, [ev |-> "import", top |-> k, child |-> 0])
           /\ layer' = IF new_elem # None
                       THEN Append(layer, WithTranslation(new_elem, pos_x, pos_y))
                       ELSE layer
    /\ k' = k + 1
    /\ UNCHANGED <<options, config, host, pc, api_key, width, height, variations, i,
                   attempt, last_error, attempt_log, call_result, network_calls,
                   svg_code, svg_root, pos_x, pos_y, group, doc_defs, messages,
                   started, history, text_vars, aux_vars>>

\* The loop without a group is over: add_svg_to_document returns.
FlatDone ==
    /\ pc = "flat_pass"
    /\ k > Len(svg_root.children)
    /\ i' = i + 1
    /\ pc' = "loop"
    /\ MergeLocalsGone
    /\ UNCHANGED <<options, config, host, api_key, width, height, variations,
                   attempt, last_error, attempt_log, call_result, network_calls,
                   svg_code, merge_log, layer, doc_defs, messages, started,
                   history, text_vars, aux_vars>>

\* A call of the host raises while the fragment is merged: the except clause
\* of add_svg_to_document reports it and returns; what was appended stays.
MergeRaises ==
    /\ pc \in {"defs_pass", "children_pass", "flat_pass"}
    /\ messages' = Append(messages, Msg("merge_error", 0, ""))
    /\ i' = i + 1
    /\ pc' = "loop"
    /\ MergeLocalsGone
    /\ UNCHANGED <<options, config, host, api_key, width, height, variations,
                   attempt, last_error, attempt_log, call_result, network_calls,
                   svg_code, merge_log, layer, doc_defs, started, history,
                   text_vars, aux_vars>>

(***************************************************************************)
(* The history.                                                            *)
(***************************************************************************)
MAX_HISTORY == 50

\* The entry save_to_history makes; now is the clock's reading.
HistoryEntry(o, w, h, now) ==
    [prompt |-> o.prompt, timestamp |-> now, width |-> w, height |-> h,
     provider |-> o.provider, model |-> o.model, style |-> o.style_hint,
     color_scheme |-> o.color_scheme]

\* The fault of a history that is cut first and gets the entry at its end.
save_to_history_at_end(hist, o, w, h, now) ==
    Append(SubSeq(hist, 1, Min(MAX_HISTORY, Len(hist))), HistoryEntry(o, w, h, now))

\* save_to_history: the entry comes first and the list is cut to MAX_HISTORY.
\* The history file is the store of the last list written: load_history
\* gives hist back and the write succeeds. now is the clock's reading.
save_to_history(hist, o, w, h, now) ==
    LET all == <<HistoryEntry(o, w, h, now)>> \o hist
    IN  SubSeq(all, 1, Min(MAX_HISTORY, Len(all)))

\* The loop of effect is over: the prompt is saved to the history when asked.
Finish ==
    /\ pc = "loop"
    /\ i >= variations
    /\ history' = IF options.save_to_history
                  THEN save_to_history(history, options, width, height, clock) ELSE history
    /\ pc' = "done"
    /\ UNCHANGED <<options, config, host, api_key, width, height, variations, i,
                   attempt, last_error, attempt_log, call_result, network_calls,
                   svg_code, svg_root, pos_x, pos_y, group, k, merge_log, layer,
                   doc_defs, messages, started, text_vars, aux_vars>>

Next ==
    \/ Precheck
    \/ StartVariation
    \/ AttemptUnknownProvider
    \/ AttemptError
    \/ AttemptAnswered
    \/ AttemptsExhausted
    \/ AfterCall
    \/ DefsStep
    \/ DefsDone
    \/ ChildStep
    \/ AttachGroup
    \/ FlatStep
    \/ FlatDone
    \/ MergeRaises
    \/ Finish

Spec == Init /\ [][Next]_vars

(***************************************************************************)
(* The sanitizer alone: clean_svg_response and validate_and_fix_svg        *)
(* applied to a text, as _parse_response and effect apply them and, to     *)
(* see each as a function, also clean_svg_response a second time and       *)
(* validate_and_fix_svg on a text that was not cleaned.                    *)
(***************************************************************************)
PieceFenceOpen == <<BackQuote, BackQuote, BackQuote, "s", "v", "g", "\n">>
PieceFenceClose == <<"\n", BackQuote, BackQuote, BackQuote>>
PieceBody ==
    <<"<", "s", "v", "g", ">", "<", "c", "i", "r", "c", "l", "e", " ", "r",
      "=", "\"", "5", "0", "\"", " ", "f", "i", "l", "l", "=", "\"", "r",
      "e", "d", "\"", "/", ">", "<", "/", "s", "v", "g", ">">>
PieceSvgOpen == <<"<", "s", "v", "g", ">">>
PieceSvgClose == <<"<", "/", "s", "v", "g", ">">>
PieceDoctype ==
    <<"<", "!", "D", "O", "C", "T", "Y", "P", "E", " ", "s", "v", "g", ">">>
PieceXmlDecl ==
    <<"<", "?", "x", "m", "l", " ", "v", "e", "r", "s", "i", "o", "n", "=",
      "\"", "1", ".", "0", "\"", "?", ">", "\n">>
PieceEmptyXmlns ==
    <<"<", "g", " ", "x", "m", "l", "n", "s", "=", "\"", "\"", "/", ">">>
PieceNbsp == <<"&", "n", "b", "s", "p", ";">>
PieceWords == <<"I", "c", "o", "n", ":", "\n">>
PieceSymbol ==
    <<"<", "s", "y", "m", "b", "o", "l", " ", "v", "i", "e", "w", "B", "o",
      "x", "=", "\"", "0", " ", "0", " ", "9", " ", "9", "\"", "/", ">">>
Pieces ==
    {PieceFenceOpen, PieceFenceClose, PieceBody, PieceSvgOpen, PieceSvgClose,
     PieceDoctype, PieceXmlDecl, PieceEmptyXmlns, PieceNbsp, PieceWords,
     PieceSymbol}

\* The number of pieces a text is made of, at most.
MaxPieces == 3
RECURSIVE TextsOf(_)
TextsOf(n) ==
    IF n = 0 THEN {<<>>}
    ELSE LET S == TextsOf(n - 1) IN S \cup {p \o t : p \in Pieces, t \in S}
\* A provider's answer in a code fence: the fence, a text, the closing fence.
Fenced(t) == PieceFenceOpen \o t \o PieceFenceClose
\* The texts the sanitizer is run on: the texts of at most MaxPieces pieces and
\* the fenced texts of fewer pieces.
Texts == TextsOf(MaxPieces) \cup {Fenced(t) : t \in TextsOf(MaxPieces - 1)}

\* The sizes get_size gives for medium, square and for medium, landscape.
Sizes == {<<200, 200>>, <<400, 300>>}

TextInit ==
    /\ RunInit(<<DefaultOptions, EmptyConfig, DefaultHost>>, "idle")
    /\ AuxIdle
    /\ t_in \in Texts
    /\ t_size \in Sizes
    /\ t_ops = <<>>
    /\ t_prev = t_in
    /\ t_out = t_in

\* clean_svg_response on the text as it stands.
Sanitize ==
    /\ t_ops \in {<<>>, <<"clean">>}
    /\ t_prev' = t_out
    /\ t_out' = clean_svg_response(t_out)
    /\ t_ops' = Append(t_ops, "clean")
    /\ UNCHANGED <<run_vars, t_in, t_size, aux_vars>>

\* validate_and_fix_svg on the text as it stands.
Repair ==
    /\ t_ops \in {<<>>, <<"clean">>}
    /\ t_prev' = t_out
    /\ t_out' = validate_and_fix_svg(t_out, t_size[1], t_size[2])
    /\ t_ops' = Append(t_ops, "repair")
    /\ UNCHANGED <<run_vars, t_in, t_size, aux_vars>>

TextNext == Sanitize \/ Repair

SpecText == TextInit /\ [][TextNext]_vars

(***************************************************************************)
(* build_prompt alone. The text it returns is kept as its lines: a part    *)
(* that starts with a newline gives an empty line first, and the join of   *)
(* the parts with newlines puts the lines of the parts one after another.  *)
(* A line is its fixed words (head, body) and the values formatted into    *)
(* it (arg).                                                               *)
(***************************************************************************)
Line(head, body, arg) == [head |-> head, body |-> body, arg |-> arg]
BlankLine == Line("", "", <<>>)

preset_prompts ==
    [icon |-> "Create a simple, recognizable icon suitable for UI/UX. Use clear shapes and minimal detail.",
     illustration |-> "Create an artistic illustration with visual appeal and appropriate detail.",
     diagram |-> "Create a clear, informative diagram with proper labels and connections.",
     pattern |-> "Create a seamless repeating pattern that tiles correctly.",
     logo |-> "Create a professional logo design that is scalable and memorable.",
     flowchart |-> "Create a flowchart with clear boxes, arrows, and labels.",
     infographic |-> "Create an informative graphic with data visualization elements."]

complexity_hints ==
    [simple |-> "Use minimal elements, basic shapes only. Maximum 10-15 elements.",
     medium |-> "Use moderate complexity with some detail. Around 20-40 elements.",
     complex |-> "Include rich detail and many elements. Can be intricate."]

style_descriptions ==
    [minimal |-> "Use a minimal, clean design with simple shapes and whitespace",
     detailed |-> "Include detailed elements and visual complexity",
     flat |-> "Use flat design principles with solid colors, no shadows or gradients",
     outline |-> "Use only outlines/strokes, no fills (line art style)",
     filled |-> "Use filled shapes with no or minimal strokes",
     geometric |-> "Use geometric shapes and mathematical patterns",
     organic |-> "Use organic, natural flowing curves and shapes",
     hand_drawn |-> "Give it a hand-drawn, sketchy appearance",
     isometric |-> "Use isometric 3D perspective",
     cartoon |-> "Use a cartoon/comic style with bold outlines"]

color_descriptions ==
    [monochrome |-> "Use only one color in different shades/tints",
     warm |-> "Use warm colors (reds, oranges, yellows, warm browns)",
     cool |-> "Use cool colors (blues, greens, purples, teals)",
     pastel |-> "Use soft pastel colors with low saturation",
     vibrant |-> "Use bright, saturated, vibrant colors",
     grayscale |-> "Use only black, white, and shades of gray",
     earth |-> "Use earthy, natural tones (browns, greens, tans)",
     neon |-> "Use bright neon/fluorescent colors",
     complementary |-> "Use complementary color pairs for contrast"]

stroke_hints ==
    [thin |-> "Use thin strokes (1-2px)",
     medium |-> "Use medium strokes (2-4px)",
     thick |-> "Use thick, bold strokes (4-8px)",
     none |-> "Do not use strokes, only fills",
     variable |-> "Use variable stroke widths for emphasis"]

\* dict.get(key, ''): the sentence of the key, the empty text without one.
GetOrEmpty(dict, key) == IF key \in DOMAIN dict THEN dict[key] ELSE ""

PresetLines(o) ==
    IF o.prompt_preset # "none" /\ o.prompt_preset \in DOMAIN preset_prompts
    THEN <<Line("", preset_prompts[o.prompt_preset], <<>>)>>
    ELSE <<>>

ComplexityLines(o) ==
    IF o.complexity \in DOMAIN complexity_hints
    THEN <<BlankLine, Line("Complexity: ", complexity_hints[o.complexity], <<>>)>>
    ELSE <<>>

\* The fault of a style part that is added for the value none as well.
StyleLinesUnguarded(o) ==
    <<BlankLine, Line("Style: ", GetOrEmpty(style_descriptions, o.style_hint), <<>>)>>

StyleLines(o) ==
    IF o.style_hint # "none"
    THEN <<BlankLine, Line("Style: ", GetOrEmpty(style_descriptions, o.style_hint), <<>>)>>
    ELSE <<>>

ColorLines(o) ==
    IF o.color_scheme # "any"
    THEN <<BlankLine,
           Line("Color palette: ", GetOrEmpty(color_descriptions, o.color_scheme), <<>>)>>
    ELSE <<>>

StrokeLines(o) ==
    IF o.stroke_style # "any" /\ o.stroke_style \in DOMAIN stroke_hints
    THEN <<BlankLine, Line("Strokes: ", stroke_hints[o.stroke_style], <<>>)>>
    ELSE <<>>

SelectionLines(selection_context) ==
    IF selection_context # <<>>
    THEN <<BlankLine, Line("", "", selection_context),
           Line("", "Try to match the style of the selected elements.", <<>>)>>
    ELSE <<>>

TechnicalLines(w, h) ==
    <<BlankLine, BlankLine,
      Line("", "=== TECHNICAL REQUIREMENTS ===", <<>>),
      Line("", "1. Return ONLY valid SVG code, no explanations or markdown", <<>>),
      Line("", "2. Do not include <?xml?> declaration or <!DOCTYPE>", <<>>),
      Line("", "3. Start with <svg> and end with </svg>", <<>>),
      Line("4. Set viewBox=", "0 0 {width} {height}", <<w, h>>),
      Line("5. Include xmlns=", "http://www.w3.org/2000/svg", <<>>),
      Line("", "6. Use absolute positioning within the viewBox", <<>>),
      Line("", "7. Ensure all elements are properly closed", <<>>),
      Line("", "8. Valid elements: svg, g, path, rect, circle, ellipse, line, polyline, polygon, text, tspan, defs, use, clipPath, mask, linearGradient, radialGradient, stop", <<>>)>>

\* build_prompt: the parts in the order they are appended, joined by newlines.
build_prompt(o, w, h, selection_context) ==
    PresetLines(o)
    \o <<BlankLine, Line("Generate SVG code for: ", "", o.prompt)>>
    \o <<BlankLine, Line("Canvas size: ", "{width}x{height} pixels", <<w, h>>)>>
    \o SelectionLines(selection_context)
    \o ComplexityLines(o)
    \o StyleLines(o)
    \o ColorLines(o)
    \o StrokeLines(o)
    \o (IF ~o.include_gradients
        THEN <<BlankLine, Line("", "Do NOT use gradients - solid colors only.", <<>>)>>
        ELSE <<>>)
    \o (IF o.include_animations
        THEN <<BlankLine,
               Line("", "Include subtle CSS or SMIL animations where appropriate.", <<>>)>>
        ELSE <<>>)
    \o TechnicalLines(w, h)
    \o (IF o.optimize_paths
        THEN <<Line("", "9. Optimize paths - use shorthand commands, remove unnecessary precision", <<>>)>>
        ELSE <<>>)
    \o (IF o.add_accessibility
        THEN <<Line("", "10. Add <title> and <desc> elements for accessibility", <<>>)>>
        ELSE <<>>)

\* The values the options are tried with: the keys of the four tables, the
\* values that stand for unset, and one value no table has.
ValueUnknown == "watercolor"
StyleValues == DOMAIN style_descriptions \cup {"none", ValueUnknown}
ColorValues == DOMAIN color_descriptions \cup {"any", ValueUnknown}
ComplexityValues == DOMAIN complexity_hints \cup {ValueUnknown}
StrokeValues == DOMAIN stroke_hints \cup {"any", ValueUnknown}

PromptInit ==
    /\ \E style \in StyleValues, color \in ColorValues,
          complexity \in ComplexityValues, stroke \in StrokeValues,
          preset \in {"none", "icon"}, flag \in BOOLEAN :
          RunInit(<<[ValidOptions EXCEPT !.style_hint = style,
                                         !.color_scheme = color,
                                         !.complexity = complexity,
                                         !.stroke_style = stroke,
                                         !.prompt_preset = preset,
                                         !.include_gradients = flag,
                                         !.include_animations = ~flag,
                                         !.add_accessibility = flag],
                    EmptyConfig, DefaultHost>>, "idle")
    /\ TextIdle
    /\ AuxIdle

\* effect's call of build_prompt, for the size get_size gave.
BuildPrompt ==
    /\ ~prompt_built
    /\ \E size \in Sizes :
          prompt_lines' = build_prompt(options, size[1], size[2], <<>>)
    /\ prompt_built' = TRUE
    /\ UNCHANGED <<run_vars, text_vars, hist_vars, import_vars>>

PromptNext == BuildPrompt

SpecPrompt == PromptInit /\ [][PromptNext]_vars

(***************************************************************************)
(* import_element alone, on the elements ElementTree can hand to it.       *)
(***************************************************************************)
\* The number of children a source element has, at most.
MaxChildren == 2

\* The tags tried: a shape, the two kinds of container and an unknown tag,
\* as ElementTree names them in a document of the svg namespace.
SourceTags == {NsSvg \o TagRect, NsSvg \o TagG, NsSvg \o TagText, NsSvg \o TagForeignObject}
\* The attributes tried: none, a qualified key, and a value the host's set
\* raises on.
SourceAttribs ==
    {<<>>, <<<<NsXlink \o KeyHref, ValHrefA>>>>, <<<<KeyTransform, ValBogus>>>>}
SourceTexts == {<<>>, TextHi}

SourceLeaves ==
    {Elem(tag, attrib, <<>>, <<>>) :
        tag \in {NsSvg \o TagRect, NsSvg \o TagForeignObject}, attrib \in SourceAttribs}

RECURSIVE ChildLists(_)
ChildLists(n) ==
    IF n = 0 THEN {<<>>}
    ELSE LET S == ChildLists(n - 1) IN S \cup {Append(c, e) : c \in S, e \in SourceLeaves}

SourceElements ==
    {Elem(tag, attrib, text, c) :
        tag \in SourceTags, attrib \in SourceAttribs, text \in SourceTexts,
        c \in ChildLists(MaxChildren)}

ImportInit ==
    /\ RunInit(<<DefaultOptions, EmptyConfig, DefaultHost>>, "idle")
    /\ TextIdle
    /\ clock = 0
    /\ saves = 0
    /\ history_before = <<>>
    /\ prompt_lines = <<>>
    /\ prompt_built = FALSE
    /\ source_element \in SourceElements
    /\ imported = None
    /\ import_done = FALSE

\* One call of import_element.
ImportCall ==
    /\ ~import_done
    /\ imported' = import_element(source_element)
    /\ import_done' = TRUE
    /\ UNCHANGED <<run_vars, text_vars, hist_vars, prompt_vars, source_element>>

ImportNext == ImportCall

SpecImport == ImportInit /\ [][ImportNext]_vars

(***************************************************************************)
(* The history alone: save_to_history called again and again on the file   *)
(* that earlier runs have left.                                            *)
(***************************************************************************)
\* The number of calls followed.
MaxSaves == 3

PromptStar == <<"a", " ", "b", "l", "u", "e", " ", "s", "t", "a", "r">>
PromptsSaved == {PromptCircle, PromptStar}

\* The file after n earlier calls, made at the clock readings 1..n: the
\* entries of the last MAX_HISTORY of them, the newest first.
PriorHistory(n) ==
    [m \in 1..Min(n, MAX_HISTORY) |-> HistoryEntry(ValidOptions, 400, 400, n + 1 - m)]

HistoryInit ==
    /\ RunFields(<<ValidOptions, EmptyConfig, DefaultHost>>, "idle")
    /\ TextIdle
    /\ \E n \in 0..(MAX_HISTORY + 1) :
          /\ history = PriorHistory(n)
          /\ clock = n
    /\ saves = 0
    /\ history_before = history
    /\ prompt_lines = <<>>
    /\ prompt_built = FALSE
    /\ ImportIdle

\* One call of save_to_history, as effect makes it at its end.
SaveCall ==
    /\ saves < MaxSaves
    /\ \E prompt \in PromptsSaved, size \in Sizes :
          history' = save_to_history(history, [options EXCEPT !.prompt = prompt],
                                     size[1], size[2], clock + 1)
    /\ clock' = clock + 1
    /\ saves' = saves + 1
    /\ history_before' = history
    /\ UNCHANGED <<options, config, host, pc, api_key, width, height, variations, i,
                   attempt, last_error, attempt_log, call_result, network_calls,
                   svg_code, svg_root, pos_x, pos_y, group, k, merge_log, layer,
                   doc_defs, messages, started, text_vars, prompt_vars, import_vars>>

HistoryNext == SaveCall

SpecHistory == HistoryInit /\ [][HistoryNext]_vars

(***************************************************************************)
(* Properties.                                                             *)
(***************************************************************************)
\* Text m is text n widened at its end.
IsPrefix(a, b) == Len(a) <= Len(b) /\ SubSeq(b, 1, Len(a)) = a

\* The run went past the two checks of effect: neither message was written.
PassedPrechecks ==
    /\ pc # "start"
    /\ \A n \in 1..Len(messages) : messages[n].kind \notin {"no_api_key", "no_prompt"}

\* C1: for retry_count >= 0, call_api_with_retry stops at the first attempt
\* that succeeds and returns the text of that attempt, also when it is attempt
\* retry_count + 1; when every attempt fails it makes exactly retry_count + 1
\* attempts and raises the error of the last one.
C1_RetryContract ==
    options.retry_count >= 0 =>
        /\ Len(attempt_log) <= options.retry_count + 1
        /\ \A n \in 1..Len(attempt_log) : attempt_log[n].ok => n = Len(attempt_log)
        /\ call_result.kind = "returned" =>
              /\ attempt_log # <<>>
              /\ attempt_log[Len(attempt_log)].ok
              /\ call_result.text = attempt_log[Len(attempt_log)].text
        /\ call_result.kind = "raised" =>
              /\ Len(attempt_log) = options.retry_count + 1
              /\ \A n \in 1..Len(attempt_log) : ~attempt_log[n].ok
              /\ call_result.error = attempt_log[Len(attempt_log)].error
              /\ call_result.error # NoError
        /\ (pc = "retry" /\ attempt_log # <<>>) =>
              /\ ~attempt_log[Len(attempt_log)].ok
              /\ last_error = attempt_log[Len(attempt_log)].error

\* The provider failed retry_count times, twice at least one, and answered the
\* attempt after them.
C1_Witness ==
    /\ options.retry_count >= 1
    /\ call_result.kind = "returned"
    /\ Len(attempt_log) = options.retry_count + 1
    /\ \A n \in 1..options.retry_count : ~attempt_log[n].ok

\* C2: every variation below the clamped count starts its pipeline whatever
\* the variations before it ended in, and no step of a run, a failing one
\* included, removes or changes a node the host document already holds.
C2_Isolation ==
    /\ [](/\ \A n \in 1..Len(started) : started[n] = n - 1
          /\ (pc = "loop" /\ PassedPrechecks) => Len(started) = i
          /\ (pc = "done" /\ PassedPrechecks) => Len(started) = variations)
    /\ [][IsPrefix(layer, layer') /\ IsPrefix(doc_defs, doc_defs')]_vars

\* Of three variations the second ran out of attempts; the first and the third
\* each left a group in the layer.
C2_Witness ==
    /\ pc = "done"
    /\ Len(started) = 3
    /\ Len(layer) = 3
    /\ \E n \in 1..Len(messages) :
          messages[n].kind = "variation_error" /\ messages[n].variation = 2

\* The key effect goes on with is missing or the placeholder, for a provider
\* that needs one.
CredentialUnusable ==
    /\ options.provider # ProvOllama
    /\ \/ api_key = <<>>
       \/ Len(api_key) >= 6 /\ SubSeq(api_key, 1, 6) = <<"s", "k", "-", ".", ".", ".">>

\* The prompt is empty or, without the white space at its ends, shorter than 3.
IntentTooShort ==
    LET S == {n \in 1..Len(options.prompt) :
                 options.prompt[n] \notin {" ", "\n", "\t", "\r"}}
    IN  S = {} \/ \A a, b \in S : b - a < 2

\* C3: a run whose key is unusable or whose prompt is too short ends before
\* any request is sent: no attempt is made and nothing is added to the host.
C3_AbortBeforeCall ==
    (pc # "start" /\ (CredentialUnusable \/ IntentTooShort)) =>
        /\ pc = "done"
        /\ network_calls = 0
        /\ started = <<>>
        /\ layer = <<HostLayerNode>>
        /\ doc_defs = <<>>

\* A run with a usable key and a prompt of four characters, two of them spaces.
C3_Witness ==
    /\ pc = "done"
    /\ ~CredentialUnusable
    /\ options.prompt = PromptShort
    /\ messages = <<Msg("no_prompt", 0, "")>>
    /\ network_calls = 0

\* The top-level child n of the fragment being merged is a defs element.
IsTopLevelDefs(n) == LocalName(svg_root.children[n].tag) = TagDefs

\* C4: while a fragment is merged, with a group or without one, every child
\* of every top-level defs element has been appended to the host's defs
\* before any top-level child that is no defs element is imported.
C4_DefsBeforeSiblings ==
    pc \in {"defs_pass", "children_pass", "flat_pass"} =>
        \A p \in 1..Len(merge_log) :
            (merge_log[p].ev = "import" /\ ~IsTopLevelDefs(merge_log[p].top)) =>
                \A d \in 1..Len(svg_root.children) :
                    IsTopLevelDefs(d) =>
                        \A c \in 1..Len(svg_root.children[d].children) :
                            \E q \in 1..(p - 1) :
                                merge_log[q] = [ev |-> "defs_append", top |-> d, child |-> c]

\* The merge without a group has imported the shape that comes before the
\* defs element, and the host's defs are empty.
C4_Witness ==
    /\ pc = "flat_pass"
    /\ ~options.add_group
    /\ merge_log = <<[ev |-> "import", top |-> 1, child |-> 0]>>
    /\ IsTopLevelDefs(2)
    /\ doc_defs = <<>>

\* C9: a run that passes the checks starts as many pipelines as the variations
\* option says, 1 at least and 4 at most, with the indices 0, 1, ... in order.
C9_VariationCount ==
    LET v == options.variations
        n == IF v < 1 THEN 1 ELSE IF v > 4 THEN 4 ELSE v
    IN  /\ \A m \in 1..Len(started) : started[m] = m - 1
        /\ Len(started) <= n
        /\ (pc = "done" /\ PassedPrechecks) => Len(started) = n

\* A run asked for no variation at all has run one pipeline.
C9_Witness ==
    /\ pc = "done"
    /\ PassedPrechecks
    /\ options.variations < 1
    /\ started = <<0>>

\* C10: with the position option center, the fragment of the variation of
\* index i is placed at x = (host width - width) / 2, plus i * (width + 20)
\* when there is more than one variation, and y = (host height - height) / 2;
\* for a width of 400 in a host 1000 wide, x is 300 and then 300 + 400 + 20.
\* (h is twice the number.)
C10_CenteredPlacement ==
    (pc \in {"defs_pass", "children_pass", "flat_pass"} /\ options.position = "center") =>
        /\ pos_x.h = (host.viewport_width - width)
                        + 2 * (IF variations > 1 THEN i * (width + 20) ELSE 0)
        /\ pos_y.h = host.viewport_height - height
        /\ (width = 400 /\ host.viewport_width = 1000 /\ i = 0) => pos_x.h = 2 * 300
        /\ (width = 400 /\ host.viewport_width = 1000 /\ i = 1) =>
              pos_x.h = 2 * (300 + 400 + 20)
        /\ options.add_group => GetAttr(group, KeyTransform) = TranslateText(pos_x, pos_y)

\* The second of two variations 400 wide is being merged into a host 1000 wide.
C10_Witness ==
    /\ pc = "defs_pass"
    /\ options.position = "center"
    /\ variations = 2
    /\ i = 1
    /\ width = 400
    /\ host.viewport_width = 1000
    /\ pos_x.h = 1440

\* The last operation on the text was validate_and_fix_svg.
LastOpRepair == t_ops # <<>> /\ t_ops[Len(t_ops)] = "repair"

\* The text went through clean_svg_response and then validate_and_fix_svg.
CleanedThenRepaired == t_ops = <<"clean", "repair">>

\* The two attributes of a repaired text, as the texts they are expected to be.
ExpectNs ==
    <<" ", "x", "m", "l", "n", "s", "=", "\"", "h", "t", "t", "p", ":", "/",
      "/", "w", "w", "w", ".", "w", "3", ".", "o", "r", "g", "/", "2", "0",
      "0", "0", "/", "s", "v", "g", "\"">>
SizeText(n) ==
    CASE n = 200 -> <<"2", "0", "0">>
      [] n = 300 -> <<"3", "0", "0">>
      [] n = 400 -> <<"4", "0", "0">>
ExpectViewBox(w, h) ==
    <<" ", "v", "i", "e", "w", "B", "o", "x", "=", "\"", "0", " ", "0", " ">> \o SizeText(w) \o <<" ">> \o SizeText(h) \o <<"\"">>

\* The text holds an svg span: an opening svg tag that is closed by a '>',
\* with a closing svg tag somewhere after it.
HasSvgSpan(s) ==
    \E a, z \in 1..Len(s) :
        /\ StartsAt(s, a, <<"<", "s", "v", "g">>)
        /\ StartsAt(s, z, <<"<", "/", "s", "v", "g", ">">>)
        /\ \E g \in (a + 4)..(z - 1) : s[g] = ">"

\* The text s inside a new svg element that carries both attributes.
Wrapped(s, w, h) ==
    <<"<", "s", "v", "g">> \o ExpectNs \o ExpectViewBox(w, h) \o <<">">> \o s
        \o <<"<", "/", "s", "v", "g", ">">>

\* C5: clean_svg_response applied to a text it has already cleaned gives
\* that text again.
C5_Idempotent == t_ops = <<"clean", "clean">> => t_out = t_prev

\* A DOCTYPE with a code fence right after it: the first pass removes the
\* DOCTYPE and leaves the fence, which the second pass removes.
C5_Witness ==
    /\ t_in = PieceDoctype \o PieceFenceOpen \o PieceBody
    /\ t_ops = <<"clean", "clean">>
    /\ t_prev = PieceFenceOpen \o PieceBody
    /\ t_out = PieceBody

\* C6: whatever the text and the size, the output of validate_and_fix_svg
\* holds a namespace declaration and a viewBox attribute, and a text that
\* neither starts with an opening svg tag nor holds an svg span comes out
\* inside a new svg element that carries both, with the size asked for.
C6_RepairPostcondition ==
    LastOpRepair =>
        /\ Contains(t_out, <<"x", "m", "l", "n", "s", "=">>)
        /\ Contains(t_out, <<"v", "i", "e", "w", "B", "o", "x", "=">>)
        /\ (~StartsWith(t_prev, <<"<", "s", "v", "g">>) /\ ~HasSvgSpan(t_prev)) =>
              t_out = Wrapped(t_prev, t_size[1], t_size[2])

\* Words without any element were repaired: they are inside the new element.
C6_Witness ==
    /\ t_ops = <<"repair">>
    /\ t_prev = PieceWords
    /\ t_out = Wrapped(PieceWords, t_size[1], t_size[2])

\* C6 as the specification words it: every text without an svg span is
\* wrapped, a text that starts with an opening svg tag included.
C6_EveryTextWithoutSpanWrapped ==
    LastOpRepair =>
        /\ Contains(t_out, <<"x", "m", "l", "n", "s", "=">>)
        /\ Contains(t_out, <<"v", "i", "e", "w", "B", "o", "x", "=">>)
        /\ ~HasSvgSpan(t_prev) => t_out = Wrapped(t_prev, t_size[1], t_size[2])

\* The opening tag of a text: what it holds up to its first '>'.
OpeningTag(s) ==
    IF \E n \in 1..Len(s) : s[n] = ">"
    THEN SubSeq(s, 1, CHOOSE n \in 1..Len(s) : s[n] = ">" /\ \A m \in 1..(n - 1) : s[m] # ">")
    ELSE <<>>

\* C7: a text that was cleaned and repaired begins with an opening svg tag,
\* that tag itself holds the namespace declaration and the viewBox attribute,
\* and the text ends with the closing svg tag.
C7_RootTagCarriesBoth ==
    CleanedThenRepaired =>
        /\ StartsWith(t_out, <<"<", "s", "v", "g">>)
        /\ Len(t_out) >= 5
        /\ t_out[5] \in {" ", "\n", "\t", "\r", "/", ">"}
        /\ Contains(OpeningTag(t_out), <<"x", "m", "l", "n", "s", "=">>)
        /\ Contains(OpeningTag(t_out), <<"v", "i", "e", "w", "B", "o", "x", "=">>)
        /\ Len(t_out) >= 6
        /\ SubSeq(t_out, Len(t_out) - 5, Len(t_out)) = <<"<", "/", "s", "v", "g", ">">>

\* An element whose symbol child has a viewBox: the root gets the namespace
\* declaration and no viewBox.
C7_Witness ==
    /\ t_in = PieceSvgOpen \o PieceSymbol \o PieceSvgClose
    /\ CleanedThenRepaired
    /\ t_out =
       <<"<", "s", "v", "g", " ", "x", "m", "l", "n", "s", "=", "\"", "h", "t",
             "t", "p", ":", "/", "/", "w", "w", "w", ".", "w", "3", ".", "o", "r",
             "g", "/", "2", "0", "0", "0", "/", "s", "v", "g", "\"", ">", "<", "s",
             "y", "m", "b", "o", "l", " ", "v", "i", "e", "w", "B", "o", "x", "=",
             "\"", "0", " ", "0", " ", "9", " ", "9", "\"", "/", ">", "<", "/", "s",
             "v", "g", ">">>

\* The body of a fenced answer: the text between the opening fence with the
\* word svg and the closing fence.
FencedBody == SubSeq(t_in, Len(PieceFenceOpen) + 1, Len(t_in) - Len(PieceFenceClose))

\* The answer is a fenced code block whose body starts with an opening svg
\* tag, ends with the closing svg tag and holds neither 'xmlns=' nor
\* 'viewBox='.
IsFencedPlainSvg ==
    /\ Len(t_in) >= Len(PieceFenceOpen) + Len(PieceFenceClose) + 10
    /\ t_in = PieceFenceOpen \o FencedBody \o PieceFenceClose
    /\ StartsWith(FencedBody, <<"<", "s", "v", "g">>)
    /\ SubSeq(FencedBody, Len(FencedBody) - 5, Len(FencedBody))
          = <<"<", "/", "s", "v", "g", ">">>
    /\ ~Contains(FencedBody, <<"x", "m", "l", "n", "s", "=">>)
    /\ ~Contains(FencedBody, <<"v", "i", "e", "w", "B", "o", "x", "=">>)

\* The body holds nothing clean_svg_response removes or replaces: no code
\* fence, no XML declaration, no DOCTYPE and no &nbsp; entity.
BodyHasNothingToClean ==
    /\ ~Contains(FencedBody, <<BackQuote, BackQuote, BackQuote>>)
    /\ ~Contains(FencedBody, <<"<", "?", "x", "m", "l">>)
    /\ ~Contains(FencedBody, <<"<", "!", "D", "O", "C", "T", "Y", "P", "E">>)
    /\ ~Contains(FencedBody, <<"&", "n", "b", "s", "p", ";">>)

\* C8: for such an answer whose body holds nothing to clean, cleaning and
\* repairing yield the body with the viewBox attribute and then the namespace
\* declaration put right after the '<svg' it starts with, and nothing else
\* changed.
C8_FencedSvgRepaired ==
    (CleanedThenRepaired /\ IsFencedPlainSvg /\ BodyHasNothingToClean) =>
        t_out = <<"<", "s", "v", "g">> \o ExpectViewBox(t_size[1], t_size[2]) \o ExpectNs
                    \o SubSeq(FencedBody, 5, Len(FencedBody))

\* The fenced circle of the specification, repaired for 200 by 200.
C8_Witness ==
    /\ t_in = Fenced(PieceBody)
    /\ t_size = <<200, 200>>
    /\ CleanedThenRepaired
    /\ t_out =
       <<"<", "s", "v", "g", " ", "v", "i", "e", "w", "B", "o", "x", "=", "\"",
             "0", " ", "0", " ", "2", "0", "0", " ", "2", "0", "0", "\"", " ", "x",
             "m", "l", "n", "s", "=", "\"", "h", "t", "t", "p", ":", "/", "/", "w",
             "w", "w", ".", "w", "3", ".", "o", "r", "g", "/", "2", "0", "0", "0",
             "/", "s", "v", "g", "\"", ">", "<", "c", "i", "r", "c", "l", "e", " ",
             "r", "=", "\"", "5", "0", "\"", " ", "f", "i", "l", "l", "=", "\"",
             "r", "e", "d", "\"", "/", ">", "<", "/", "s", "v", "g", ">">>

\* C8 as the specification words it: the namespace declaration comes first
\* and the viewBox attribute second.
C8_NamespaceFirst ==
    (CleanedThenRepaired /\ IsFencedPlainSvg) =>
        t_out = <<"<", "s", "v", "g">> \o ExpectNs \o ExpectViewBox(t_size[1], t_size[2])
                    \o SubSeq(FencedBody, 5, Len(FencedBody))

\* The prefix of the model names of a cloud provider's own family.
FamilyPrefix(provider) ==
    CASE provider = <<"o", "p", "e", "n", "a", "i">> -> <<"g", "p", "t">>
      [] provider = <<"a", "n", "t", "h", "r", "o", "p", "i", "c">> ->
            <<"c", "l", "a", "u", "d", "e">>
      [] provider = <<"g", "o", "o", "g", "l", "e">> -> <<"g", "e", "m", "i", "n", "i">>
CloudProviders ==
    {<<"o", "p", "e", "n", "a", "i">>, <<"a", "n", "t", "h", "r", "o", "p", "i", "c">>,
     <<"g", "o", "o", "g", "l", "e">>}

\* C11: in every request an adapter sends, a configured model name that does
\* not start with the prefix of the provider's own family is replaced by a
\* model of that family, and no request of any adapter, the OpenAI one
\* included, names a model of another provider's family.
C11_NoForeignModel ==
    \A n \in 1..Len(attempt_log) :
        LET provider == Lower(options.provider)
            sent == attempt_log[n].model
        IN  provider \in KnownProviders =>
                /\ \A q \in CloudProviders \ {provider} : ~StartsWith(sent, FamilyPrefix(q))
                /\ (provider \in CloudProviders
                        /\ ~StartsWith(options.model, FamilyPrefix(provider))) =>
                      /\ sent # options.model
                      /\ StartsWith(sent, FamilyPrefix(provider))

\* The OpenAI adapter has sent a request that names a Claude model.
C11_Witness ==
    /\ options.provider = ProvOpenai
    /\ options.model = ModelClaudeOpus
    /\ attempt_log # <<>>
    /\ attempt_log[1].model = ModelClaudeOpus

\* The merge stands at a top-level child whose tag import_element does not
\* know.
AtUnknownTag ==
    /\ pc \in {"children_pass", "flat_pass"}
    /\ k <= Len(svg_root.children)
    /\ LocalName(svg_root.children[k].tag) \notin DOMAIN element_map

\* The node x is the generic node for the source element e: it has the tag
\* name, the text and every attribute of e, and no class of the whitelist.
IsGenericNodeFor(x, e) ==
    /\ x.cls = "BaseElement"
    /\ x.tag = LocalName(e.tag)
    /\ x.text = e.text
    /\ \A n \in 1..Len(e.attrib) :
          \E m \in 1..Len(x.attrib) :
              /\ x.attrib[m][1] \in {e.attrib[n][1], LocalName(e.attrib[n][1])}
              /\ x.attrib[m][2] = e.attrib[n][2]

\* The host can read every attribute of the source element e.
HostReadsAll(e) ==
    \A n \in 1..Len(e.attrib) : e.attrib[n][2] # <<"b", "o", "g", "u", "s">>

\* C12: a top-level child with a tag outside the whitelist never ends the
\* merge: the step that handles it adds the generic node with its tag name,
\* attributes and text, or nothing when the node cannot be built, and the loop
\* moves to the next sibling; so every child up to the one the loop stands at
\* has been handed to import_element.
C12_UnknownTagKeepsMergeGoing ==
    /\ [](pc \in {"children_pass", "flat_pass"} =>
             \A n \in 1..(k - 1) :
                 (pc = "flat_pass" \/ LocalName(svg_root.children[n].tag) # TagDefs) =>
                     \E m \in 1..Len(merge_log) :
                         merge_log[m] = [ev |-> "import", top |-> n, child |-> 0])
    /\ [][(AtUnknownTag /\ messages' = messages) =>
             /\ pc' = pc
             /\ k' = k + 1
             /\ IF pc = "flat_pass"
                THEN IF HostReadsAll(svg_root.children[k])
                     THEN /\ Len(layer') = Len(layer) + 1
                          /\ IsGenericNodeFor(layer'[Len(layer')], svg_root.children[k])
                     ELSE layer' = layer
                ELSE IF HostReadsAll(svg_root.children[k])
                     THEN /\ Len(group'.children) = Len(group.children) + 1
                          /\ IsGenericNodeFor(group'.children[Len(group'.children)],
                                              svg_root.children[k])
                     ELSE group' = group]_vars

\* The merge without a group went past both unknown tags, the one that gave
\* a generic node and the one that gave none, and has imported the last child.
C12_Witness ==
    /\ pc = "flat_pass"
    /\ call_result.reply = ReplyMixed
    /\ k = 5
    /\ Len(merge_log) = 4
    /\ Len(layer) = 4
    /\ layer[2].cls = "BaseElement"
    /\ layer[2].tag = TagForeignObject
    /\ layer[4].cls = "Circle"

LinesWith(head) == {n \in 1..Len(prompt_lines) : prompt_lines[n].head = head}
Carrying(sentence) == {n \in 1..Len(prompt_lines) : prompt_lines[n].body = sentence}

\* The option with the table of sentences dict and the value v has its one
\* line, or none when v is one of the values that stand for unset.
OneLineFor(head, dict, v, unset) ==
    IF v \in unset
    THEN /\ LinesWith(head) = {}
         /\ \A key \in DOMAIN dict : Carrying(dict[key]) = {}
    ELSE v \in DOMAIN dict =>
            /\ Cardinality(LinesWith(head)) = 1
            /\ Carrying(dict[v]) = LinesWith(head)
            /\ \A key \in DOMAIN dict \ {v} : Carrying(dict[key]) = {}

\* C14: in the prompt build_prompt returns, each of the style, color,
\* complexity and stroke options with a value of its table gives exactly one
\* line, which carries the sentence of that value, and the values that stand
\* for unset (style none, color any, stroke any) give no line.
C14_OneLinePerOption ==
    prompt_built =>
        /\ OneLineFor("Style: ", style_descriptions, options.style_hint, {"none"})
        /\ OneLineFor("Color palette: ", color_descriptions, options.color_scheme, {"any"})
        /\ OneLineFor("Complexity: ", complexity_hints, options.complexity, {})
        /\ OneLineFor("Strokes: ", stroke_hints, options.stroke_style, {"any"})

\* A prompt built with a style, without a color, and with the stroke value
\* none, which is a value of the table and not the unset one.
C14_Witness ==
    /\ prompt_built
    /\ options.style_hint = "isometric"
    /\ options.color_scheme = "any"
    /\ options.complexity = "simple"
    /\ options.stroke_style = "none"
    /\ \E n \in 1..Len(prompt_lines) :
          prompt_lines[n] = Line("Style: ", "Use isometric 3D perspective", <<>>)
    /\ \E n \in 1..Len(prompt_lines) :
          prompt_lines[n] = Line("Strokes: ", "Do not use strokes, only fills", <<>>)
    /\ LinesWith("Color palette: ") = {}

\* Every attribute of the node x is an attribute of the source element e
\* under the local name of its key.
KeysAreLocalNames(x, e) ==
    \A m \in 1..Len(x.attrib) :
        /\ \A j \in 1..Len(x.attrib[m][1]) : x.attrib[m][1][j] \notin {"{", "}"}
        /\ \E n \in 1..Len(e.attrib) :
              /\ x.attrib[m][1] = LocalName(e.attrib[n][1])
              /\ x.attrib[m][2] = e.attrib[n][2]

\* C15: every attribute key import_element copies onto the node it returns
\* is the local name of the source key, for a tag of the whitelist and for a
\* tag imported as a generic node alike.
C15_KeysAreLocal ==
    (import_done /\ imported # None) =>
        /\ Len(imported.attrib) = Len(source_element.attrib)
        /\ KeysAreLocalNames(imported, source_element)

\* A generic node was made from an element with a qualified key.
C15_Witness ==
    /\ import_done
    /\ imported # None
    /\ imported.cls = "BaseElement"
    /\ source_element.attrib = <<<<NsXlink \o KeyHref, ValHrefA>>>>
    /\ Len(imported.attrib) = 1

\* The node x is the element e with the transform value and nothing else
\* changed.
SameButTransform(x, e, value) ==
    /\ x.cls = e.cls
    /\ x.tag = e.tag
    /\ x.text = e.text
    /\ x.children = e.children
    /\ DictGet(x.attrib, KeyTransform, <<>>) = value
    /\ \A n \in 1..Len(e.attrib) :
          e.attrib[n][1] # KeyTransform =>
              DictGet(x.attrib, e.attrib[n][1], <<>>) = e.attrib[n][2]

\* C16: without a group no container is made, and every turn of the loop
\* whose child import_element converts appends the converted node itself to
\* the end of the current layer, its transform being translate(pos_x, pos_y)
\* and then, after a space, the transform it had, if it had one; a child
\* that is not converted adds nothing.
C16_FlatAttach ==
    /\ [](pc = "flat_pass" => group = None)
    /\ [][(pc = "flat_pass" /\ k <= Len(svg_root.children) /\ messages' = messages) =>
             LET e == import_element(svg_root.children[k])
                 had == DictGet(e.attrib, KeyTransform, <<>>)
                 move == LitTranslate \o FmtNum(pos_x) \o <<",", " ">>
                             \o FmtNum(pos_y) \o <<")">>
             IN  /\ k' = k + 1
                 /\ IF e = None THEN layer' = layer
                    ELSE /\ Len(layer') = Len(layer) + 1
                         /\ SubSeq(layer', 1, Len(layer)) = layer
                         /\ SameButTransform(layer'[Len(layer')], e,
                                IF had = <<>> THEN move ELSE move \o <<" ">> \o had)]_vars

\* The loop without a group is past a group element with a transform and past
\* a shape without one: both are in the layer, in this order, the first with
\* the translation before its own transform and the second with the
\* translation alone.
C16_Witness ==
    /\ pc = "flat_pass"
    /\ k > Len(svg_root.children)
    /\ call_result.reply = ReplyMixed
    /\ Len(layer) = 4
    /\ layer[3].cls = "Group"
    /\ GetAttr(layer[3], KeyTransform) = TranslateText(pos_x, pos_y) \o <<" ">> \o ValScale2
    /\ Len(layer[3].children) = 2
    /\ layer[4].cls = "Circle"
    /\ GetAttr(layer[4], KeyTransform) = TranslateText(pos_x, pos_y)

\* The variations of the run that ended without a merge: each has left one
\* message.
FailedVariations ==
    {n \in 1..Len(messages) :
        messages[n].kind \in {"variation_error", "no_svg_code", "parse_error", "merge_error"}}

\* What import_element gives for the children of the root that are no defs,
\* in their order.
RECURSIVE ConvertedChildren(_, _)
ConvertedChildren(children, n) ==
    IF n > Len(children) THEN <<>>
    ELSE (IF LocalName(children[n].tag) # TagDefs /\ import_element(children[n]) # None
          THEN <<import_element(children[n])>> ELSE <<>>)
             \o ConvertedChildren(children, n + 1)

\* C17: with a group, the layer changes only when the container is appended
\* to it, which happens once the loop over the children is over and the
\* container holds every child that was converted; a variation that did not
\* parse or whose merge raised adds no node, so that a finished run has added
\* one container for each variation that was merged.
C17_ContainerAttachedLast ==
    /\ [][(options.add_group /\ layer' # layer) =>
             /\ pc = "children_pass"
             /\ k > Len(svg_root.children)
             /\ layer' = Append(layer, group)
             /\ group.cls = "Group"
             /\ LET own == IF options.add_accessibility THEN 2 ELSE 0
                IN  SubSeq(group.children, own + 1, Len(group.children))
                        = ConvertedChildren(svg_root.children, 1)]_vars
    /\ []((options.add_group /\ pc = "done" /\ PassedPrechecks) =>
             Len(layer) - 1 = variations - Cardinality(FailedVariations))

\* A run of several variations with a group is over: one of them did not
\* parse, and the one that was merged has its container in the layer with its
\* three converted children.
C17_Witness ==
    /\ options.add_group
    /\ pc = "done"
    /\ variations >= 2
    /\ \E n \in 1..Len(messages) : messages[n].kind = "parse_error"
    /\ Len(layer) = 2
    /\ layer[2].cls = "Group"
    /\ Len(layer[2].children) = 3
    /\ layer[2].children[1].cls = "BaseElement"

\* The answers whose text is not empty once stripped and is empty once
\* cleaned.
RepliesEmptyOnceCleaned ==
    {r \in Replies : Strip(r.text) # <<>> /\ clean_svg_response(Strip(r.text)) = <<>>}
\* Of the answers of the model this is the code fence with nothing in it.
EmptyOnceCleaned(r) == r = ReplyFenceOnly

\* C18: an answer whose text is not empty and is empty once cleaned ends
\* call_api_with_retry at that attempt, as a success with the empty text;
\* effect then reports that no SVG code was generated for the variation,
\* leaves the document as it is, sends no request and goes to the next
\* variation.
C18_EmptyAfterCleanIsSuccess ==
    /\ RepliesEmptyOnceCleaned = {ReplyFenceOnly}
    /\ [][(pc = "retry" /\ network_calls' = network_calls + 1
              /\ \E n \in 1..Len(attempt_log') :
                    /\ n > Len(attempt_log)
                    /\ attempt_log'[n].ok
                    /\ attempt_log'[n].text = <<>>) =>
             /\ pc' = "returned"
             /\ call_result'.kind = "returned"
             /\ call_result'.text = <<>>
             /\ EmptyOnceCleaned(call_result'.reply)
             /\ attempt' = attempt]_vars
    /\ [][(pc = "returned" /\ EmptyOnceCleaned(call_result.reply)) =>
             /\ messages' = Append(messages, Msg("no_svg_code", i + 1, ""))
             /\ layer' = layer
             /\ doc_defs' = doc_defs
             /\ network_calls' = network_calls
             /\ attempt_log' = attempt_log
             /\ pc' = "loop"
             /\ i' = i + 1]_vars
    /\ [](\A n \in 1..Len(attempt_log) :
             EmptyOnceCleaned(attempt_log[n].reply) =>
                 /\ attempt_log[n].ok
                 /\ attempt_log[n].text = <<>>
                 /\ n = Len(attempt_log)
                 /\ pc # "retry")

\* The first variation got a code fence and nothing else at its first
\* attempt, with retries left: it was reported, nothing was merged for it, and
\* the second variation was merged.
C18_Witness ==
    /\ pc = "done"
    /\ options.retry_count >= 1
    /\ variations = 2
    /\ network_calls = 2
    /\ messages = <<Msg("no_svg_code", 1, "")>>
    /\ started = <<0, 1>>
    /\ Len(layer) = 2

\* The children of the source element e that import_element converts, each
\* converted, in their order.
ConvertedOf(e) ==
    LET S == {n \in 1..Len(e.children) : import_element(e.children[n]) # None}
        at(m) == CHOOSE n \in S : Cardinality({q \in S : q < n}) = m - 1
    IN  [m \in 1..Cardinality(S) |-> import_element(e.children[at(m)])]

\* The container tags, by name.
ContainerTagNames ==
    {TagG, TagDefs, TagClipPath, TagMask, TagSymbol, TagMarker, TagPattern,
     TagLinearGradient, TagRadialGradient, TagFilter, TagText}

\* C19: the node import_element returns has children only when the tag of the
\* source element is a container tag; then they are the children of the source
\* that could be imported, in their order, the others being left out. For any
\* other tag, of the whitelist or not, the node has no children.
C19_ChildrenOnlyInContainers ==
    (import_done /\ imported # None) =>
        IF LocalName(source_element.tag) \in ContainerTagNames
        THEN imported.children = ConvertedOf(source_element)
        ELSE imported.children = <<>>

\* A group whose first child could not be imported and whose second child
\* was: the node has the second child alone.
C19_Witness ==
    /\ import_done
    /\ imported.cls = "Group"
    /\ Len(source_element.children) = 2
    /\ import_element(source_element.children[1]) = None
    /\ Len(imported.children) = 1
    /\ imported.children[1] = import_element(source_element.children[2])

=============================================================================
